---- MODULE Spec2Model ----
(***************************************************************************)
(* Job-run discovery and cross-job test aggregation of ci-tools            *)
(* (pkg/jobrunaggregator): the run-id successor NextJobRunID, the GCS      *)
(* cursor walker ListJobRunNamesOlderThanFourHours, the retrying locator   *)
(* findJobRunsWithRetry, the fan-out collector GetRelatedJobRuns, the      *)
(* suite matcher getTestStatus and the threshold checker CheckTestCase.    *)
(*                                                                         *)
(* Go strings that are compared, parsed or formatted by the code are       *)
(* sequences of byte values (ASCII codes), so that the byte order of the   *)
(* object store and the decimal syntax of strconv are what the code sees.  *)
(***************************************************************************)
EXTENDS Integers, Sequences, FiniteSets, TLC

VARIABLES
    \* NextJobRunID applied to one argument
    njCurr, njRet, njPc,
    \* findJobRunsWithRetry: position, the errorsInARow counter, the shared
    \* context, the pending select, the returned pair, and the call history
    rPc, errorsInARow, rCancelled, rWake, rRet,
    rAttempts, rSleeps, rLastRuns, rLastErr, rCancelPc, rCancelAttempts,
    \* GetRelatedJobRuns: position and loop index of the collector, the jobs
    \* it got, the per-job goroutines and what findJobRunsWithRetry returned
    \* to each, the WaitGroup counter, resultCh, the umbrella context, the
    \* accumulated and the returned result
    gPc, gI, jobs, wPc, wRes, waitGroup, resultCh, resultChClosed,
    gCancelled, jobRunsToReturn, gRet,
    \* getTestStatus applied to one identifier and one suite tree
    tsId, tsSuite, tsRet, tsPc,
    \* CheckTestCase: the checker (id, requiredNumberOfPasses), the map it is
    \* given, the entries the range loop has yet to visit, successCount,
    \* currDetails and the returned suite
    ctId, requiredNumberOfPasses, jobRunJunits, ctTodo, successCount,
    currDetails, ctRet, ctPc,
    \* ListJobRunNamesOlderThanFourHours: the bucket's objects under the job's
    \* prefix, the startingID argument, query.StartOffset, the iterator it,
    \* the two channels, the context, the producer goroutine's position, the
    \* run id it is about to send, how it left its loop, and every id sent
    bucket, startingID, queryStartOffset, it, jobRunProcessingCh,
    jobRunProcessingChClosed, errorCh, pCancelled, pPc, jobRunId, pExit, pSent,
    \* ReadJobRunFromGCS: the objects under jobGCSRootLocation, the jobRunID
    \* argument, the iterator over the queried range, the jobRun variable,
    \* the position, whether GetProwJob was called, and the returned pair
    rrStore, rrRunID, rrIt, rrJobRun, rrPc, rrFetched, rrRet,
    \* JobRunTestCaseAnalyzerOptions.Run and the command around it: the
    \* position, the clock, o.jobRunStartEstimate, the deadline of the context
    \* made from o.timeout, the configured checkers, whether WaitUntilTime
    \* suspended, whether discovery was called and what it gave, the combined
    \* suite, whether the report file was written, the returned error and
    \* what the command logged
    oPc, oNow, jobRunStartEstimate, timeout, oDeadline, testCaseCheckers,
    oSuspended, oDiscoveryCalled, oJobRuns, jobRunJunitMap, oTopSuite, oWritten,
    oRet, cmdLog,
    \* the PR flow of GetRelatedJobRuns, from GetJobs to the last locator built:
    \* the position, o.jobGCSPrefixes, what ListAllJobs returns, the jobs GetJobs
    \* returns, the loop index and the locators built so far
    prPc, jobGCSPrefixes, allJobs, prJobs, prI, jobRunLocators,
    \* the helpdesk FAQ: the helpdesk-faq ConfigMap as the API server holds it;
    \* per handler goroutine the event, the position, the faqItem it works on, the
    \* ConfigMap object it read, what it returned and the store calls it made;
    \* and one ConfigMapClient's cachedItems and lastReload, the clock, and what
    \* its last call returned
    configMap, hEvent, hPc, faqItem, hConfigMap, hRet, hCalls, cachedItems, lastReload, faqNow, cRet

njVars == <<njCurr, njRet, njPc>>
rVars == <<rPc, errorsInARow, rCancelled, rWake, rRet,
           rAttempts, rSleeps, rLastRuns, rLastErr, rCancelPc, rCancelAttempts>>

gVars == <<gPc, gI, jobs, wPc, wRes, waitGroup, resultCh, resultChClosed,
           gCancelled, jobRunsToReturn, gRet>>

tsVars == <<tsId, tsSuite, tsRet, tsPc>>

ctVars == <<ctId, requiredNumberOfPasses, jobRunJunits, ctTodo, successCount,
            currDetails, ctRet, ctPc>>

pVars == <<bucket, startingID, queryStartOffset, it, jobRunProcessingCh,
           jobRunProcessingChClosed, errorCh, pCancelled, pPc, jobRunId, pExit, pSent>>

rrVars == <<rrStore, rrRunID, rrIt, rrJobRun, rrPc, rrFetched, rrRet>>

oVars == <<oPc, oNow, jobRunStartEstimate, timeout, oDeadline, testCaseCheckers,
           oSuspended, oDiscoveryCalled, oJobRuns, jobRunJunitMap, oTopSuite,
           oWritten, oRet, cmdLog>>

prVars == <<prPc, jobGCSPrefixes, allJobs, prJobs, prI, jobRunLocators>>

faqVars == <<configMap, hEvent, hPc, faqItem, hConfigMap, hRet, hCalls, cachedItems, lastReload, faqNow, cRet>>

vars == <<njVars, rVars, gVars, tsVars, ctVars, pVars, rrVars, oVars, prVars, faqVars>>

\* what the steps of one operation leave alone: the other operations' state
exceptNj == <<rVars, gVars, tsVars, ctVars, pVars, rrVars, oVars, prVars, faqVars>>
exceptRetry == <<njVars, gVars, tsVars, ctVars, pVars, rrVars, oVars, prVars, faqVars>>
exceptFanOut == <<njVars, rVars, tsVars, ctVars, pVars, rrVars, oVars, prVars, faqVars>>
exceptTestStatus == <<njVars, rVars, gVars, ctVars, pVars, rrVars, oVars, prVars, faqVars>>
exceptCheckTestCase == <<njVars, rVars, gVars, tsVars, pVars, rrVars, oVars, prVars, faqVars>>
exceptWalker == <<njVars, rVars, gVars, tsVars, ctVars, rrVars, oVars, prVars, faqVars>>
exceptResolver == <<njVars, rVars, gVars, tsVars, ctVars, pVars, oVars, prVars, faqVars>>
exceptRun == <<njVars, rVars, gVars, tsVars, ctVars, pVars, rrVars, prVars, faqVars>>
exceptPairing == <<njVars, rVars, gVars, tsVars, ctVars, pVars, rrVars, oVars, faqVars>>
exceptFAQ == <<njVars, rVars, gVars, tsVars, ctVars, pVars, rrVars, oVars, prVars>>

----------------------------------------------------------------------------
(* Byte strings                                                            *)

\* the byte value of the characters the code's literals and inputs are made of
Byte(c) ==
    CASE c = "+" -> 43 [] c = "-" -> 45 [] c = "/" -> 47
      [] c = "0" -> 48 [] c = "9" -> 57
      [] c = "a" -> 97 [] c = "b" -> 98 [] c = "f" -> 102
      [] c = "l" -> 108 [] c = "p" -> 112 [] c = "x" -> 120

Ch0 == Byte("0")
Ch9 == Byte("9")
ChPlus == Byte("+")
ChMinus == Byte("-")
ChSlash == Byte("/")
ChX == Byte("x")

IsDigit(c) == c >= Ch0 /\ c <= Ch9

Min(a, b) == IF a < b THEN a ELSE b

\* Go's string comparison: byte-wise, a proper prefix is smaller.
RECURSIVE StrLess(_, _)
StrLess(a, b) ==
    IF b = <<>> THEN FALSE
    ELSE IF a = <<>> THEN TRUE
    ELSE IF Head(a) # Head(b) THEN Head(a) < Head(b)
    ELSE StrLess(Tail(a), Tail(b))

StrLeq(a, b) == a = b \/ StrLess(a, b)

Front(s) == SubSeq(s, 1, Len(s) - 1)
Last(s) == s[Len(s)]

\* the digits of a decimal numeral, as bytes
Dec(ds) == [i \in 1..Len(ds) |-> Ch0 + ds[i]]

RECURSIVE StripZeros(_)
StripZeros(s) ==
    IF Len(s) > 1 /\ Head(s) = Ch0 THEN StripZeros(Tail(s)) ELSE s

\* magnitude comparison of two numerals without leading zeros
MagLess(a, b) ==
    \/ Len(a) < Len(b)
    \/ Len(a) = Len(b) /\ StrLess(a, b)

\* a + 1 and a - 1 on a numeral (a >= 1 for MagDec)
RECURSIVE MagInc(_)
MagInc(s) ==
    IF s = <<>> THEN <<Ch0 + 1>>
    ELSE IF Last(s) = Ch9 THEN MagInc(Front(s)) \o <<Ch0>>
    ELSE Front(s) \o <<Last(s) + 1>>

RECURSIVE MagDecRaw(_)
MagDecRaw(s) ==
    IF Last(s) = Ch0 THEN MagDecRaw(Front(s)) \o <<Ch9>>
    ELSE Front(s) \o <<Last(s) - 1>>

MagDec(s) == StripZeros(MagDecRaw(s))

\* 2^63 - 1 and 2^63 as numerals
MaxInt64Str == Dec(<<9,2,2,3,3,7,2,0,3,6,8,5,4,7,7,5,8,0,7>>)
MinInt64Mag == Dec(<<9,2,2,3,3,7,2,0,3,6,8,5,4,7,7,5,8,0,8>>)

----------------------------------------------------------------------------
(* strconv.ParseInt(s, 10, 64) and fmt.Sprintf("%d", v) on int64           *)

\* An int64 is [neg, mag]: sign and magnitude numeral; zero is never neg.
ParseInt(s) ==
    LET signed == Len(s) > 0 /\ Head(s) \in {ChPlus, ChMinus}
        body   == IF signed THEN Tail(s) ELSE s
        neg    == signed /\ Head(s) = ChMinus
        mag    == StripZeros(body)
        syntax == Len(body) > 0 /\ \A i \in 1..Len(body) : IsDigit(body[i])
        range  == IF neg THEN ~MagLess(MinInt64Mag, mag)
                         ELSE ~MagLess(MaxInt64Str, mag)
    IN  IF syntax /\ range
        THEN [ok |-> TRUE, neg |-> neg /\ mag # <<Ch0>>, mag |-> mag]
        ELSE [ok |-> FALSE, neg |-> FALSE, mag |-> <<Ch0>>]

\* v + 1 in int64 arithmetic: the largest value wraps to the smallest
AddOneWrap(v) ==
    IF v.neg
    THEN LET m == MagDec(v.mag) IN [neg |-> m # <<Ch0>>, mag |-> m]
    ELSE IF v.mag = MaxInt64Str
         THEN [neg |-> TRUE, mag |-> MinInt64Mag]
         ELSE [neg |-> FALSE, mag |-> MagInc(v.mag)]

AddOneNoWrap(v) ==
    IF v.neg
    THEN LET m == MagDec(v.mag) IN [neg |-> m # <<Ch0>>, mag |-> m]
    ELSE [neg |-> FALSE, mag |-> MagInc(v.mag)]

AddOne(v) == AddOneWrap(v)

FormatInt(v) == IF v.neg THEN <<ChMinus>> \o v.mag ELSE v.mag

----------------------------------------------------------------------------
(* NextJobRunID                                                            *)

\* if err != nil { panic(err) }
NextJobRunIDNeverPanics(curr) == FALSE
NextJobRunIDPanics(curr) == Len(curr) # 0 /\ ~ParseInt(curr).ok

NextJobRunIDSame(curr) ==
    IF Len(curr) = 0 THEN <<Ch0>>
    ELSE FormatInt([neg |-> ParseInt(curr).neg, mag |-> ParseInt(curr).mag])

NextJobRunID(curr) ==
    IF Len(curr) = 0 THEN <<Ch0>>
    ELSE FormatInt(AddOne([neg |-> ParseInt(curr).neg, mag |-> ParseInt(curr).mag]))

\* --- arguments tried ---
NextIdMaxLen == 3
NextIdAlphabet == {Ch0, Ch0 + 1, Ch0 + 8, Ch9}

RECURSIVE StringsUpTo(_, _)
StringsUpTo(alpha, n) ==
    IF n = 0 THEN {<<>>}
    ELSE LET shorter == StringsUpTo(alpha, n - 1)
         IN  shorter \cup {s \o <<c>> : s \in shorter, c \in alpha}

NextIdSpecials ==
    { MaxInt64Str, MagDec(MaxInt64Str), MinInt64Mag,
      <<Ch0>> \o MaxInt64Str,
      Dec(<<1,4,7,5,6,1,4,3,6,3,5,1,8,7,6,7,1,0,4>>),
      Dec(<<9,9,9,9,9,9,9,9,9,9,9,9,9,9,9,9,9,9,9,9>>),
      <<ChMinus>> \o MinInt64Mag,
      <<ChMinus, Ch0 + 1>>, <<ChMinus, Ch0>>, <<ChMinus, Ch0 + 1, Ch0>>,
      <<ChPlus, Ch0 + 5>>, <<ChPlus>>, <<ChMinus>>,
      <<ChX>>, <<Ch0 + 1, ChX>>, <<Ch0 + 1, ChSlash>> }

NextIdArgs == StringsUpTo(NextIdAlphabet, NextIdMaxLen) \cup NextIdSpecials

IsUnsignedDecimal(s) == Len(s) > 0 /\ \A i \in 1..Len(s) : IsDigit(s[i])

NjIdle ==
    /\ njCurr = <<>>
    /\ njRet = <<>>
    /\ njPc = "idle"

NjStart ==
    /\ njCurr \in NextIdArgs
    /\ njRet = <<>>
    /\ njPc = "call"

NjReturn ==
    /\ njPc = "call"
    /\ ~NextJobRunIDPanics(njCurr)
    /\ njRet' = NextJobRunID(njCurr)
    /\ njPc' = "returned"
    /\ UNCHANGED njCurr
    /\ UNCHANGED exceptNj

NjPanic ==
    /\ njPc = "call"
    /\ NextJobRunIDPanics(njCurr)
    /\ njPc' = "panicked"
    /\ UNCHANGED <<njCurr, njRet>>
    /\ UNCHANGED exceptNj

NjNext == NjReturn \/ NjPanic

\* --- the successor computed with integers, for numerals that fit TLC's ---
RECURSIVE Value(_)
Value(s) == IF s = <<>> THEN 0 ELSE 10 * Value(Front(s)) + (Last(s) - Ch0)

RECURSIVE ToDec(_)
ToDec(n) == IF n < 10 THEN <<Ch0 + n>> ELSE ToDec(n \div 10) \o <<Ch0 + (n % 10)>>

NoLeadingZero(s) == Len(s) > 0 /\ (Len(s) > 1 => Head(s) # Ch0)

\* r is the numeral of int(s) + 1 over the mathematical integers
IsSuccessorNumeral(r, s) ==
    /\ IsUnsignedDecimal(r)
    /\ NoLeadingZero(r)
    /\ r # <<Ch0>>
    /\ MagDec(r) = StripZeros(s)
    /\ Len(s) <= NextIdMaxLen => r = ToDec(Value(s) + 1)

\* C8 as stated: NextJobRunID("") is "0", and for EVERY non-empty unsigned
\* decimal string s the call returns the numeral, without leading zeros, of
\* int(s) + 1.
CexC8_EveryUnsignedDecimal ==
    /\ (njPc # "call" /\ njCurr = <<>>) => (njPc = "returned" /\ njRet = <<Ch0>>)
    /\ (njPc # "call" /\ IsUnsignedDecimal(njCurr)) =>
            (njPc = "returned" /\ IsSuccessorNumeral(njRet, njCurr))

\* What the code does on unsigned numerals: below 2^63 - 1 it returns the
\* numeral, without leading zeros, of int(s) + 1; at 2^63 - 1 the sum wraps to
\* -2^63; above it ParseInt reports a range error and the call panics.
InRangeNextJobRunID ==
    /\ (njPc # "call" /\ njCurr = <<>>) => (njPc = "returned" /\ njRet = <<Ch0>>)
    /\ (njPc # "call" /\ IsUnsignedDecimal(njCurr)
            /\ MagLess(StripZeros(njCurr), MaxInt64Str)) =>
            (njPc = "returned" /\ IsSuccessorNumeral(njRet, njCurr))
    /\ (njPc # "call" /\ IsUnsignedDecimal(njCurr)
            /\ StripZeros(njCurr) = MaxInt64Str) =>
            (njPc = "returned" /\ njRet = <<ChMinus>> \o MinInt64Mag)
    /\ (njPc # "call" /\ IsUnsignedDecimal(njCurr)
            /\ MagLess(MaxInt64Str, StripZeros(njCurr))) => njPc = "panicked"

\* a numeral with leading zeros and a carry: "099" gives "100"
LeadingZeroCarry ==
    /\ njPc = "returned"
    /\ njCurr = <<Ch0, Ch9, Ch9>>
    /\ njRet = <<Ch0 + 1, Ch0, Ch0>>

\* a non-empty string that is not an optionally signed run of decimal digits
IsSignedDecimal(s) ==
    /\ Len(s) > 0
    /\ IF Head(s) \in {ChPlus, ChMinus} THEN IsUnsignedDecimal(Tail(s))
       ELSE IsUnsignedDecimal(s)
NonNumeric(s) == Len(s) > 0 /\ ~IsSignedDecimal(s)

\* C16: applied to a non-numeric identifier, NextJobRunID panics: the call
\* never returns, with a successor or with an error value.
ThmC16_NonNumericPanics ==
    (njPc # "call" /\ NonNumeric(njCurr)) => (njPc = "panicked" /\ njRet = <<>>)

\* "1x": digits followed by a letter
WitC16_PanickedOnLetter ==
    /\ njPc = "panicked"
    /\ njCurr = <<Ch0 + 1, ChX>>
    /\ njRet = <<>>


\* the integer a signed numeral stands for: sign and magnitude without
\* leading zeros, whatever its size
NumeralValue(s) ==
    LET signed == Head(s) \in {ChPlus, ChMinus}
        mag == StripZeros(IF signed THEN Tail(s) ELSE s)
    IN  [neg |-> Head(s) = ChMinus /\ mag # <<Ch0>>, mag |-> mag]

\* a < b on integers given by sign and magnitude
IntLess(a, b) ==
    IF a.neg /\ ~b.neg THEN TRUE
    ELSE IF ~a.neg /\ b.neg THEN FALSE
    ELSE IF a.neg THEN MagLess(b.mag, a.mag)
    ELSE MagLess(a.mag, b.mag)

\* C35: for every id that parses as an int64, NextJobRunID returns the
\* numeral of a strictly greater integer.
CexC35_SuccessorIsGreater ==
    (njPc # "call" /\ Len(njCurr) > 0 /\ ParseInt(njCurr).ok) =>
        /\ njPc = "returned"
        /\ IsSignedDecimal(njRet)
        /\ IntLess(NumeralValue(njCurr), NumeralValue(njRet))

\* what the code does: below 2^63 - 1 the result is greater; at 2^63 - 1 it
\* is -2^63
SuccessorIsGreaterBelowMax ==
    (njPc # "call" /\ Len(njCurr) > 0 /\ ParseInt(njCurr).ok) =>
        /\ njPc = "returned"
        /\ IsSignedDecimal(njRet)
        /\ IF NumeralValue(njCurr) = [neg |-> FALSE, mag |-> MaxInt64Str]
           THEN njRet = <<ChMinus>> \o MinInt64Mag
           ELSE IntLess(NumeralValue(njCurr), NumeralValue(njRet))

WrappedAtMaxInt64 ==
    /\ njPc = "returned"
    /\ njCurr = MaxInt64Str
    /\ njRet = <<ChMinus>> \o MinInt64Mag

\* "-1" gives "0" and "-10" gives "-9"
NegativeSuccessors ==
    /\ njPc = "returned"
    /\ \/ njCurr = <<ChMinus, Ch0 + 1>> /\ njRet = <<Ch0>>
       \/ njCurr = <<ChMinus, Ch0 + 1, Ch0>> /\ njRet = <<ChMinus, Ch9>>

----------------------------------------------------------------------------
(* findJobRunsWithRetry                                                    *)

MaxErrorsInARow == 20

\* what one FindRelatedJobs call can return
FoundRunSets == {<<>>, <<"run1">>, <<"run1", "run2">>}
FindErrors(cancelled) == IF cancelled THEN {"errFind", "errCtx"} ELSE {"errFind"}

GiveUpAtBound(n) == n >= MaxErrorsInARow
GiveUp(n) == n > MaxErrorsInARow

\* the <-ctx.Done() case of the select can proceed
CtxDoneNever(cancelled) == FALSE
CtxDoneCase(cancelled) == cancelled

ReturnNothing(runs) == [runs |-> <<>>, err |-> "nil"]
ReturnFound(runs) == [runs |-> runs, err |-> "nil"]

RetryIdle ==
    /\ rPc = "idle"
    /\ errorsInARow = 0
    /\ rCancelled = FALSE
    /\ rWake = "none"
    /\ rRet = [runs |-> <<>>, err |-> "nil"]
    /\ rAttempts = 0
    /\ rSleeps = 0
    /\ rLastRuns = <<>>
    /\ rLastErr = "nil"
    /\ rCancelPc = "none"
    /\ rCancelAttempts = 0

RetryStart ==
    /\ rPc = "call"
    /\ errorsInARow = 0
    /\ rCancelled = FALSE
    /\ rWake = "none"
    /\ rRet = [runs |-> <<>>, err |-> "nil"]
    /\ rAttempts = 0
    /\ rSleeps = 0
    /\ rLastRuns = <<>>
    /\ rLastErr = "nil"
    /\ rCancelPc = "none"
    /\ rCancelAttempts = 0

\* jobRunLocator.FindRelatedJobs(ctx) is entered
RetryCall ==
    /\ rPc = "call"
    /\ rPc' = "inFind"
    /\ rAttempts' = rAttempts + 1
    /\ UNCHANGED <<errorsInARow, rCancelled, rWake, rRet, rSleeps,
                   rLastRuns, rLastErr, rCancelPc, rCancelAttempts>>
    /\ UNCHANGED exceptRetry

\* it returns runs and a nil error: return jobRuns, nil
RetryFindOk ==
    /\ rPc = "inFind"
    /\ \E runs \in FoundRunSets :
          /\ rLastRuns' = runs
          /\ rRet' = ReturnFound(runs)
    /\ rLastErr' = "nil"
    /\ rPc' = "done"
    /\ UNCHANGED <<errorsInARow, rCancelled, rWake, rAttempts, rSleeps,
                   rCancelPc, rCancelAttempts>>
    /\ UNCHANGED exceptRetry

\* it returns an error: give up, or count it and enter the select
RetryFindErr ==
    /\ rPc = "inFind"
    /\ \E e \in FindErrors(rCancelled) :
          /\ rLastErr' = e
          /\ IF GiveUp(errorsInARow)
             THEN /\ rRet' = [runs |-> <<>>, err |-> e]
                  /\ rPc' = "done"
                  /\ UNCHANGED <<errorsInARow, rWake, rSleeps>>
             ELSE /\ errorsInARow' = errorsInARow + 1
                  /\ IF CtxDoneCase(rCancelled)
                     THEN /\ rRet' = [runs |-> <<>>, err |-> "errCtx"]
                          /\ rPc' = "done"
                          /\ UNCHANGED <<rWake, rSleeps>>
                     ELSE /\ rPc' = "sleeping"
                          /\ rWake' = "none"
                          /\ rSleeps' = rSleeps + 1
                          /\ UNCHANGED rRet
    /\ UNCHANGED <<rCancelled, rAttempts, rLastRuns, rCancelPc, rCancelAttempts>>
    /\ UNCHANGED exceptRetry

\* time.After(1 * time.Minute) fires while the select is blocked
RetryTimer ==
    /\ rPc = "sleeping"
    /\ rWake = "none"
    /\ rWake' = "timer"
    /\ UNCHANGED <<rPc, errorsInARow, rCancelled, rRet, rAttempts, rSleeps,
                   rLastRuns, rLastErr, rCancelPc, rCancelAttempts>>
    /\ UNCHANGED exceptRetry

\* the context is cancelled (or its deadline passes); a select blocked on
\* ctx.Done() is woken with that case
RetryCancel ==
    /\ ~rCancelled
    /\ rCancelled' = TRUE
    /\ rCancelPc' = IF rPc = "sleeping" /\ rWake = "timer" THEN "waking" ELSE rPc
    /\ rCancelAttempts' = rAttempts
    /\ rWake' = IF rPc = "sleeping" /\ rWake = "none" /\ CtxDoneCase(TRUE)
                THEN "done" ELSE rWake
    /\ UNCHANGED <<rPc, errorsInARow, rRet, rAttempts, rSleeps, rLastRuns, rLastErr>>
    /\ UNCHANGED exceptRetry

\* the select returns with the case that woke it
RetryWake ==
    /\ rPc = "sleeping"
    /\ rWake # "none"
    /\ IF rWake = "done"
       THEN /\ rRet' = [runs |-> <<>>, err |-> "errCtx"]
            /\ rPc' = "done"
       ELSE /\ rPc' = "call"
            /\ UNCHANGED rRet
    /\ rWake' = "none"
    /\ UNCHANGED <<errorsInARow, rCancelled, rAttempts, rSleeps,
                   rLastRuns, rLastErr, rCancelPc, rCancelAttempts>>
    /\ UNCHANGED exceptRetry

RetryNext ==
    \/ RetryCall
    \/ RetryFindOk
    \/ RetryFindErr
    \/ RetryTimer
    \/ RetryCancel
    \/ RetryWake

\* C1 as stated: with every FindRelatedJobs call failing and the context never
\* cancelled, findJobRunsWithRetry returns the error after the 21st
\* consecutive failed attempt and never makes a 22nd attempt.
CexC1_GivesUpAfter21 ==
    ~rCancelled =>
        /\ rAttempts <= MaxErrorsInARow + 1
        /\ (rAttempts = MaxErrorsInARow + 1 /\ rPc # "inFind" /\ rLastErr # "nil")
               => (rPc = "done" /\ rRet.err = rLastErr)

\* What the code does there: the 22nd consecutive failure is the one returned.
GivesUpAfter22 ==
    ~rCancelled =>
        /\ rAttempts <= MaxErrorsInARow + 2
        /\ (rPc = "done" /\ rRet.err # "nil")
               => (rAttempts = MaxErrorsInARow + 2 /\ rRet.err = rLastErr)

\* C2: when FindRelatedJobs succeeds on attempt k after k-1 consecutive
\* failures, findJobRunsWithRetry returns exactly the runs of that attempt with
\* a nil error (k-1 errors counted, k-1 sleeps slept), and once it has returned
\* it makes no further attempt and sleeps no further.
ThmC2_SuccessReturnsThatAttempt ==
    /\ [] ((rPc = "done" /\ rLastErr = "nil") =>
              /\ rRet = [runs |-> rLastRuns, err |-> "nil"]
              /\ rAttempts <= MaxErrorsInARow + 2
              /\ errorsInARow = rAttempts - 1
              /\ rSleeps = rAttempts - 1)
    /\ [][rPc = "done" =>
              (rPc' = "done" /\ rRet' = rRet
                 /\ rAttempts' = rAttempts /\ rSleeps' = rSleeps)]_vars

\* success on try 5, after four failures and four sleeps
WitC2_SuccessOnTry5 ==
    /\ rPc = "done"
    /\ rRet = [runs |-> <<"run1", "run2">>, err |-> "nil"]
    /\ rAttempts = 5
    /\ rSleeps = 4

\* C9 as stated: a cancellation that arrives while findJobRunsWithRetry is in
\* an attempt or in its sleep makes it terminal at once with a cancellation
\* error, and no FindRelatedJobs attempt starts after it.
CexC9_CancelAlwaysYieldsCtxErr ==
    rCancelPc \in {"inFind", "sleeping"} =>
        /\ rAttempts = rCancelAttempts
        /\ rPc \in {rCancelPc, "done"}
        /\ rPc = "done" => rRet.err = "errCtx"

\* C9 amended: a cancellation that arrives during the inter-retry sleep (before
\* the timer has fired) wakes the select with ctx.Done(): the function returns
\* ctx.Err() and starts no further attempt. A cancellation that arrives during
\* an attempt starts no further attempt either, but the function returns what
\* that attempt decides: its runs with a nil error if it succeeds, its own
\* error if it fails with more than 20 errors already counted, and ctx.Err()
\* from the select otherwise.
ThmC9_CancelStopsRetrying ==
    /\ rCancelPc = "sleeping" =>
          /\ rAttempts = rCancelAttempts
          /\ rPc \in {"sleeping", "done"}
          /\ rPc = "sleeping" => rWake = "done"
          /\ rPc = "done" => rRet = [runs |-> <<>>, err |-> "errCtx"]
    /\ rCancelPc = "inFind" =>
          /\ rAttempts = rCancelAttempts
          /\ rPc \in {"inFind", "done"}
          /\ rPc = "done" =>
                \/ rLastErr = "nil" /\ rRet = [runs |-> rLastRuns, err |-> "nil"]
                \/ /\ rLastErr # "nil"
                   /\ errorsInARow > MaxErrorsInARow
                   /\ rRet = [runs |-> <<>>, err |-> rLastErr]
                \/ /\ rLastErr # "nil"
                   /\ errorsInARow <= MaxErrorsInARow + 1
                   /\ rRet = [runs |-> <<>>, err |-> "errCtx"]

\* cancelled in the third sleep: returned ctx.Err() with three attempts made
WitC9_CancelledInSleep ==
    /\ rCancelPc = "sleeping"
    /\ rPc = "done"
    /\ rRet.err = "errCtx"
    /\ rAttempts = 3
    /\ rSleeps = 3

----------------------------------------------------------------------------
(* GetRelatedJobRuns                                                       *)

NumJobs == 3
JobNames == <<"A", "B", "C", "D", "E">>
JobList == [i \in 1..NumJobs |-> JobNames[i]]

\* the runs one successful findJobRunsWithRetry call returns for a job
LocatorRunSets == {<<"run1">>, <<"run1", "run2">>}
RunsOf(job, ids) == [i \in 1..Len(ids) |-> [job |-> job, id |-> ids[i]]]

\* findJobRunsWithRetry(ctx, job.JobName, jobRunLocator) as its caller sees it:
\* runs with a nil error, or no runs and an error (ctx.Err() needs a cancelled
\* context)
FindWithRetryResults(job, cancelled) ==
    {[runs |-> RunsOf(job, ids), err |-> "nil"] : ids \in LocatorRunSets}
    \cup {[runs |-> <<>>, err |-> "errFind"]}
    \cup (IF cancelled THEN {[runs |-> <<>>, err |-> "errCtx"]} ELSE {})

NoResult == [runs |-> <<>>, err |-> "none"]

\* if err == nil { resultCh <- jobRuns }
WorkerSendsAlways(res) == TRUE
WorkerSends(res) == res.err = "nil"

\* jobRunsToReturn = append(jobRunsToReturn, jobRuns...)
DrainAssign(acc, jobRuns) == jobRuns
DrainAppend(acc, jobRuns) == acc \o jobRuns

\* the select on ctx.Done() after the drain
FinalCheckWorkers(cancelled, results) ==
    IF cancelled \/ \E j \in DOMAIN results : results[j].err \notin {"nil", "none"}
    THEN "errCtx" ELSE "nil"
FinalCheck(cancelled, results) == IF cancelled THEN "errCtx" ELSE "nil"

GIdle ==
    /\ gPc = "idle"
    /\ gI = 1
    /\ jobs = <<>>
    /\ wPc = <<>>
    /\ wRes = <<>>
    /\ waitGroup = 0
    /\ resultCh = <<>>
    /\ resultChClosed = FALSE
    /\ gCancelled = FALSE
    /\ jobRunsToReturn = <<>>
    /\ gRet = NoResult

GStart ==
    /\ gPc = "getJobs"
    /\ gI = 1
    /\ jobs = <<>>
    /\ wPc = <<>>
    /\ wRes = <<>>
    /\ waitGroup = 0
    /\ resultCh = <<>>
    /\ resultChClosed = FALSE
    /\ gCancelled = FALSE
    /\ jobRunsToReturn = <<>>
    /\ gRet = NoResult

\* jobs, err := o.jobGetter.GetJobs(ctx) succeeds; resultCh is made
GGetJobs ==
    /\ gPc = "getJobs"
    /\ jobs' = JobList
    /\ wPc' = [i \in 1..NumJobs |-> "none"]
    /\ wRes' = [i \in 1..NumJobs |-> NoResult]
    /\ gPc' = "launch"
    /\ UNCHANGED <<gI, waitGroup, resultCh, resultChClosed, gCancelled,
                   jobRunsToReturn, gRet>>
    /\ UNCHANGED exceptFanOut

\* ... or fails
GGetJobsFail ==
    /\ gPc = "getJobs"
    /\ gRet' = [runs |-> <<>>, err |-> "errGetJobs"]
    /\ gPc' = "returned"
    /\ UNCHANGED <<gI, jobs, wPc, wRes, waitGroup, resultCh, resultChClosed,
                   gCancelled, jobRunsToReturn>>
    /\ UNCHANGED exceptFanOut

\* one iteration of the launch loop: waitGroup.Add(1); go func() {...}()
GLaunch ==
    /\ gPc = "launch"
    /\ gI <= Len(jobs)
    /\ waitGroup' = waitGroup + 1
    /\ wPc' = [wPc EXCEPT ![gI] = "finding"]
    /\ gI' = gI + 1
    /\ UNCHANGED <<gPc, jobs, wRes, resultCh, resultChClosed, gCancelled,
                   jobRunsToReturn, gRet>>
    /\ UNCHANGED exceptFanOut

\* goroutine i: findJobRunsWithRetry returns
WFind(i) ==
    /\ wPc[i] = "finding"
    /\ \E res \in FindWithRetryResults(jobs[i], gCancelled) :
          /\ wRes' = [wRes EXCEPT ![i] = res]
          /\ wPc' = [wPc EXCEPT ![i] = IF WorkerSends(res) THEN "send" ELSE "exit"]
    /\ UNCHANGED <<gPc, gI, jobs, waitGroup, resultCh, resultChClosed,
                   gCancelled, jobRunsToReturn, gRet>>
    /\ UNCHANGED exceptFanOut

\* resultCh := make(chan []jobrunaggregatorapi.JobRunInfo, len(jobs))
ResultChCapOneLess(js) == Len(js) - 1
ResultChCap(js) == Len(js)

\* goroutine i: resultCh <- jobRuns (blocks while the buffer is full)
WSend(i) ==
    /\ wPc[i] = "send"
    /\ ~resultChClosed
    /\ Len(resultCh) < ResultChCap(jobs)
    /\ resultCh' = Append(resultCh, wRes[i].runs)
    /\ wPc' = [wPc EXCEPT ![i] = "exit"]
    /\ UNCHANGED <<gPc, gI, jobs, wRes, waitGroup, resultChClosed,
                   gCancelled, jobRunsToReturn, gRet>>
    /\ UNCHANGED exceptFanOut

\* goroutine i: the deferred waitGroup.Done()
WDone(i) ==
    /\ wPc[i] = "exit"
    /\ waitGroup' = waitGroup - 1
    /\ wPc' = [wPc EXCEPT ![i] = "done"]
    /\ UNCHANGED <<gPc, gI, jobs, wRes, resultCh, resultChClosed,
                   gCancelled, jobRunsToReturn, gRet>>
    /\ UNCHANGED exceptFanOut

\* waitGroup.Wait() returns
GWaitWithoutJoin ==
    /\ gPc = "launch"
    /\ gI > Len(jobs)
    /\ gPc' = "close"
    /\ UNCHANGED <<gI, jobs, wPc, wRes, waitGroup, resultCh, resultChClosed,
                   gCancelled, jobRunsToReturn, gRet>>
    /\ UNCHANGED exceptFanOut
GWait ==
    /\ gPc = "launch"
    /\ gI > Len(jobs)
    /\ waitGroup = 0
    /\ gPc' = "close"
    /\ UNCHANGED <<gI, jobs, wPc, wRes, waitGroup, resultCh, resultChClosed,
                   gCancelled, jobRunsToReturn, gRet>>
    /\ UNCHANGED exceptFanOut

\* close(resultCh)
GClose ==
    /\ gPc = "close"
    /\ resultChClosed' = TRUE
    /\ gPc' = "drain"
    /\ UNCHANGED <<gI, jobs, wPc, wRes, waitGroup, resultCh, gCancelled,
                   jobRunsToReturn, gRet>>
    /\ UNCHANGED exceptFanOut

\* one iteration of: for jobRuns := range resultCh
GDrain ==
    /\ gPc = "drain"
    /\ resultCh # <<>>
    /\ jobRunsToReturn' = DrainAppend(jobRunsToReturn, Head(resultCh))
    /\ resultCh' = Tail(resultCh)
    /\ UNCHANGED <<gPc, gI, jobs, wPc, wRes, waitGroup, resultChClosed,
                   gCancelled, gRet>>
    /\ UNCHANGED exceptFanOut

\* the range ends on the closed, empty channel; select on ctx.Done(); return
GReturn ==
    /\ gPc = "drain"
    /\ resultCh = <<>>
    /\ resultChClosed
    /\ gRet' = IF FinalCheck(gCancelled, wRes) = "nil"
               THEN [runs |-> jobRunsToReturn, err |-> "nil"]
               ELSE [runs |-> <<>>, err |-> FinalCheck(gCancelled, wRes)]
    /\ gPc' = "returned"
    /\ UNCHANGED <<gI, jobs, wPc, wRes, waitGroup, resultCh, resultChClosed,
                   gCancelled, jobRunsToReturn>>
    /\ UNCHANGED exceptFanOut

\* the umbrella context is cancelled or times out
GCancel ==
    /\ gPc \notin {"getJobs", "returned"}
    /\ ~gCancelled
    /\ gCancelled' = TRUE
    /\ UNCHANGED <<gPc, gI, jobs, wPc, wRes, waitGroup, resultCh, resultChClosed,
                   jobRunsToReturn, gRet>>
    /\ UNCHANGED exceptFanOut

GNext ==
    \/ GGetJobs
    \/ GGetJobsFail
    \/ GLaunch
    \/ \E i \in 1..NumJobs : i <= Len(jobs) /\ WFind(i)
    \/ \E i \in 1..NumJobs : i <= Len(jobs) /\ WSend(i)
    \/ \E i \in 1..NumJobs : i <= Len(jobs) /\ WDone(i)
    \/ GWait
    \/ GClose
    \/ GDrain
    \/ GReturn
    \/ GCancel

\* the runs of job i stand together, in the locator's order, in seq
HoldsRunsOf(seq, i) ==
    \E k \in 0..Len(seq) :
        /\ k + Len(wRes[i].runs) <= Len(seq)
        /\ SubSeq(seq, k + 1, k + Len(wRes[i].runs)) = wRes[i].runs

RECURSIVE TotalRunsOfSucceeded(_)
TotalRunsOfSucceeded(n) ==
    IF n = 0 THEN 0
    ELSE TotalRunsOfSucceeded(n - 1)
            + (IF wRes[n].err = "nil" THEN Len(wRes[n].runs) ELSE 0)

\* C3: with the outer context not cancelled, GetRelatedJobRuns returns a nil
\* error whatever the per-job results are, and its result holds exactly the
\* runs returned for the jobs whose findJobRunsWithRetry succeeded, each once,
\* and no run of a job whose call returned an error (jobs A, B, C with B
\* failing: exactly A's and C's runs).
ThmC3_FailedJobContributesNothing ==
    (gPc = "returned" /\ jobs # <<>> /\ ~gCancelled) =>
        /\ gRet.err = "nil"
        /\ \A i \in 1..Len(jobs) :
              /\ wRes[i].err = "nil" => HoldsRunsOf(gRet.runs, i)
              /\ wRes[i].err # "nil" =>
                    \A k \in 1..Len(gRet.runs) : gRet.runs[k].job # jobs[i]
        /\ Len(gRet.runs) = TotalRunsOfSucceeded(Len(jobs))

\* A found two runs, B failed, C found one and delivered it before A
WitC3_BFailsAAndCSucceed ==
    /\ gPc = "returned"
    /\ Len(jobs) >= 3
    /\ ~gCancelled
    /\ wRes[2].err = "errFind"
    /\ gRet = [runs |-> <<[job |-> "C", id |-> "run1"],
                          [job |-> "A", id |-> "run1"],
                          [job |-> "A", id |-> "run2"]>>,
               err |-> "nil"]

\* C13 as stated: the only error GetRelatedJobRuns itself returns is the
\* context's, found by the check after the join.
CexC13_OnlyCancellationIsReturned ==
    (gPc = "returned" /\ gRet.err # "nil") => (gCancelled /\ gRet.err = "errCtx")

\* C13, amended: GetRelatedJobRuns returns an error in two cases only. Either
\* GetJobs failed, before any worker was launched; or the outer context is
\* cancelled when the single check after the join and the drain is made, and
\* then every worker has finished, the WaitGroup is at zero and resultCh is
\* closed and empty. A worker's own error is never returned.
ThmC13_ErrorsOfTheCollector ==
    gPc = "returned" =>
        \/ /\ gRet.err = "errGetJobs"
           /\ jobs = <<>> /\ wPc = <<>> /\ waitGroup = 0 /\ ~resultChClosed
        \/ /\ gRet.err \in {"nil", "errCtx"}
           /\ gRet.err = "errCtx" <=> gCancelled
           /\ gRet.err = "errCtx" => gRet.runs = <<>>
           /\ \A i \in 1..Len(jobs) : wPc[i] = "done"
           /\ waitGroup = 0 /\ resultChClosed /\ resultCh = <<>>

\* cancelled while the workers ran: one worker had delivered runs, another had
\* failed on its own; the drained runs are dropped and ctx.Err() is returned
WitC13_CancelledAfterDelivery ==
    /\ gPc = "returned"
    /\ gCancelled
    /\ Len(jobs) >= 2
    /\ wRes[1].err = "nil"
    /\ wRes[2].err = "errFind"
    /\ jobRunsToReturn # <<>>
    /\ gRet = [runs |-> <<>>, err |-> "errCtx"]

GetJobsFailed ==
    gPc = "returned" /\ gRet.err = "errGetJobs" /\ ~gCancelled

\* the workers that were launched and have not yet run waitGroup.Done()
Running == {i \in 1..Len(jobs) : wPc[i] \in {"finding", "send", "exit"}}

\* C22: the WaitGroup counts exactly the launched workers that have not
\* finished, one per job; and once the Collector is past waitGroup.Wait()
\* (closing, draining or returned after a successful GetJobs) the launch loop
\* has gone over every job and every job's worker has finished: the
\* Collector never returns while a worker is still attempting or sleeping.
ThmC22_JoinsEveryWorker ==
    /\ waitGroup = Cardinality(Running)
    /\ \A i \in 1..Len(jobs) : (wPc[i] # "none") <=> (i < gI)
    /\ (gPc \in {"close", "drain", "returned"} /\ gRet.err # "errGetJobs") =>
          /\ Len(jobs) = NumJobs
          /\ gI = Len(jobs) + 1
          /\ \A i \in 1..Len(jobs) : wPc[i] = "done" /\ wRes[i] # NoResult

\* the Collector returned; every one of the workers had run and finished
WitC22_ReturnedAfterAllWorkers ==
    /\ gPc = "returned"
    /\ gRet.err = "nil"
    /\ Len(jobs) = NumJobs
    /\ \A i \in 1..Len(jobs) : wPc[i] = "done"
    /\ \E i \in 1..Len(jobs) : wRes[i].err = "errFind"

\* the Collector stands in waitGroup.Wait() while a worker is still finding
BlockedInWait ==
    /\ gPc = "launch" /\ gI > Len(jobs)
    /\ waitGroup = 1
    /\ \E i \in 1..Len(jobs) : wPc[i] = "finding"

\* the workers that have sent their runs
Sent == {i \in 1..Len(jobs) : wRes[i].err = "nil" /\ wPc[i] \in {"exit", "done"}}

\* C33: resultCh has room for one send of every worker and holds at most what
\* the workers have sent, so a worker that comes to its send can always make
\* it: the channel is neither full nor closed then. The channel is closed only
\* when every worker has finished, and it is closed when the drain begins.
\* Hence, whenever no worker is still inside findJobRunsWithRetry, either the
\* Collector has returned or a step of a worker or of the Collector can be
\* taken: nothing waits for ever.
ThmC33_NoWorkerBlocksOnSend ==
    /\ Len(resultCh) <= Cardinality(Sent)
    /\ \A i \in 1..Len(jobs) :
          wPc[i] = "send" => (~resultChClosed /\ Len(resultCh) < ResultChCap(jobs))
    /\ resultChClosed =>
          /\ gPc \in {"drain", "returned"}
          /\ \A i \in 1..Len(jobs) : wPc[i] = "done"
    /\ gPc = "drain" => resultChClosed
    /\ (gPc = "launch" /\ gI > Len(jobs) /\ waitGroup # 0) =>
          \E i \in 1..Len(jobs) : wPc[i] \in {"finding", "send", "exit"}

\* every worker found runs and has made its send before the Collector
\* received anything: the channel holds one element per job
WitC33_AllSentBeforeDrain ==
    /\ Len(jobs) = NumJobs
    /\ Cardinality(Sent) = NumJobs
    /\ Len(resultCh) = NumJobs
    /\ ~resultChClosed
    /\ gPc = "launch"

\* the last worker comes to its send with the other workers' runs in the
\* channel
LastWorkerAtSend ==
    /\ Len(jobs) = NumJobs
    /\ Len(resultCh) = NumJobs - 1
    /\ \E i \in 1..Len(jobs) : wPc[i] = "send"

----------------------------------------------------------------------------
(* getTestStatus                                                           *)

testSkipped == "testSkipped"
testPassed == "testPassed"
testFailed == "testFailed"

\* A pointer is a sequence of at most one element: Nil, or Ptr(x).
Nil == <<>>
Ptr(x) == <<x>>

\* A junit.TestCase is [Name, FailureOutput, SkipMessage]; a junit.TestSuite is
\* [Name, TestCases, Children, NumTests, NumFailed].
TestCase(name, failure, skip) ==
    [Name |-> name,
     FailureOutput |-> IF failure = "nil" THEN Nil ELSE Ptr([Message |-> failure]),
     SkipMessage |-> IF skip = "nil" THEN Nil ELSE Ptr([Message |-> skip])]
TestSuite(name, cases, children) ==
    [Name |-> name, TestCases |-> cases, Children |-> children,
     NumTests |-> 0, NumFailed |-> 0]

\* if len(id.testSuites) == 0 || id.testSuites[0] != testSuite.Name
NoSuiteNames(id, testSuite) == Len(id.testSuites) = 0
SuiteMismatch(id, testSuite) ==
    Len(id.testSuites) = 0 \/ id.testSuites[1] # testSuite.Name

\* the loop over testSuite.TestCases: the first exact name match decides
RECURSIVE CaseStatusLastWins(_, _)
CaseStatusLastWins(testName, testCases) ==
    IF testCases = <<>> THEN testSkipped
    ELSE IF Last(testCases).Name = testName
         THEN IF Last(testCases).FailureOutput = Nil THEN testPassed ELSE testFailed
         ELSE CaseStatusLastWins(testName, Front(testCases))

RECURSIVE CaseStatusLoopSkipMessage(_, _)
CaseStatusLoopSkipMessage(testName, testCases) ==
    IF testCases = <<>> THEN testSkipped
    ELSE IF Head(testCases).Name = testName /\ Head(testCases).SkipMessage = Nil
         THEN IF Head(testCases).FailureOutput = Nil THEN testPassed ELSE testFailed
         ELSE CaseStatusLoopSkipMessage(testName, Tail(testCases))

RECURSIVE CaseStatusLoop(_, _)
CaseStatusLoop(testName, testCases) ==
    IF testCases = <<>> THEN testSkipped
    ELSE IF Head(testCases).Name = testName
         THEN IF Head(testCases).FailureOutput = Nil THEN testPassed ELSE testFailed
         ELSE CaseStatusLoop(testName, Tail(testCases))

CaseStatus(testName, testCases) == CaseStatusLoop(testName, testCases)

RECURSIVE getTestStatus(_, _)
RECURSIVE SearchChildren(_, _)

\* the loop over testSuite.Children with next = id less its first suite name
RECURSIVE SearchChildrenFirstNamed(_, _)
SearchChildrenFirstNamed(next, children) ==
    IF children = <<>> THEN testSkipped
    ELSE IF Len(next.testSuites) > 0 /\ next.testSuites[1] = Head(children).Name
         THEN getTestStatus(next, Head(children))
         ELSE SearchChildrenFirstNamed(next, Tail(children))
SearchChildren(next, children) ==
    IF children = <<>> THEN testSkipped
    ELSE IF Len(next.testSuites) > 0 /\ next.testSuites[1] = Head(children).Name
         THEN LET status == getTestStatus(next, Head(children))
              IN  IF status = testPassed \/ status = testFailed
                  THEN status
                  ELSE SearchChildren(next, Tail(children))
         ELSE SearchChildren(next, Tail(children))

getTestStatusEmptyPathMatches(id, testSuite) ==
    IF Len(id.testSuites) = 0
    THEN CaseStatus(id.testName, testSuite.TestCases)
    ELSE IF id.testSuites[1] # testSuite.Name THEN testSkipped
    ELSE IF Len(id.testSuites) = 1
         THEN CaseStatus(id.testName, testSuite.TestCases)
         ELSE SearchChildren([id EXCEPT !.testSuites = Tail(id.testSuites)],
                             testSuite.Children)
getTestStatus(id, testSuite) ==
    IF SuiteMismatch(id, testSuite) THEN testSkipped
    ELSE IF Len(id.testSuites) = 1
         THEN CaseStatus(id.testName, testSuite.TestCases)
         ELSE SearchChildren([id EXCEPT !.testSuites = Tail(id.testSuites)],
                             testSuite.Children)

\* --- identifiers and trees tried ---
MaxCases == 2
MaxChildren == 2

RECURSIVE SeqsUpTo(_, _)
SeqsUpTo(S, n) ==
    IF n = 0 THEN {<<>>}
    ELSE LET shorter == SeqsUpTo(S, n - 1)
         IN  shorter \cup {Append(q, x) : q \in shorter, x \in S}

LeafCases ==
    { TestCase("dns-check", "nil", "nil"),
      TestCase("dns-check", "failure", "nil"),
      TestCase("other-test", "nil", "nil") }
RootCases == LeafCases \cup { TestCase("dns-check", "nil", "skipped") }

LeafSuites ==
    { TestSuite(n, cs, <<>>) : n \in {"network", "other"}, cs \in SeqsUpTo(LeafCases, 1) }

SuiteTrees ==
    { TestSuite(n, cs, ch) :
        n \in {"install", "other"},
        cs \in SeqsUpTo(RootCases, MaxCases),
        ch \in SeqsUpTo(LeafSuites, MaxChildren) }

TestIdentifiers ==
    { [testSuites |-> p, testName |-> "dns-check"] :
        p \in { <<>>, <<"install">>, <<"other">>,
                <<"install", "network">>, <<"install", "other">> } }

TsIdle ==
    /\ tsId = [testSuites |-> <<>>, testName |-> ""]
    /\ tsSuite = TestSuite("", <<>>, <<>>)
    /\ tsRet = testSkipped
    /\ tsPc = "idle"

TsStart ==
    /\ tsId \in TestIdentifiers
    /\ tsSuite \in SuiteTrees
    /\ tsRet = testSkipped
    /\ tsPc = "call"

TsReturn ==
    /\ tsPc = "call"
    /\ tsRet' = getTestStatus(tsId, tsSuite)
    /\ tsPc' = "returned"
    /\ UNCHANGED <<tsId, tsSuite>>
    /\ UNCHANGED exceptTestStatus

TsNext == TsReturn

\* the first direct test case of the suite named testName, 0 if there is none
FirstMatch(testName, testSuite) ==
    LET M == {k \in 1..Len(testSuite.TestCases) : testSuite.TestCases[k].Name = testName}
    IN  IF M = {} THEN 0 ELSE CHOOSE k \in M : \A m \in M : k <= m

\* C6: when the tree's name equals the only remaining suite name, the verdict
\* comes from the tree's direct test cases alone: the (first) case whose name
\* is exactly the leaf test name gives failed if it carries failure output and
\* passed if it does not; no such case gives skipped, whatever the children.
ThmC6_LeafLevelVerdict ==
    (tsPc = "returned" /\ Len(tsId.testSuites) = 1
        /\ tsId.testSuites[1] = tsSuite.Name) =>
        LET k == FirstMatch(tsId.testName, tsSuite)
        IN  /\ k = 0 => tsRet = testSkipped
            /\ (k # 0 /\ tsSuite.TestCases[k].FailureOutput # Nil) => tsRet = testFailed
            /\ (k # 0 /\ tsSuite.TestCases[k].FailureOutput = Nil) => tsRet = testPassed

\* no direct case named dns-check, but a child named like the tree holds one
WitC6_ChildCasesNotConsidered ==
    /\ tsPc = "returned"
    /\ tsId = [testSuites |-> <<"other">>, testName |-> "dns-check"]
    /\ tsSuite = TestSuite("other",
                           <<TestCase("other-test", "nil", "nil")>>,
                           <<TestSuite("other", <<TestCase("dns-check", "failure", "nil")>>, <<>>)>>)
    /\ tsRet = testSkipped

\* C7: a tree whose own name differs from the first suite name of the
\* identifier gives skipped, whatever its test cases and children.
ThmC7_MismatchedRootSkipped ==
    (tsPc = "returned" /\ Len(tsId.testSuites) >= 1
        /\ tsId.testSuites[1] # tsSuite.Name) => tsRet = testSkipped

\* a tree rooted "other" that holds a failing dns-check case and a network child
WitC7_OtherRoot ==
    /\ tsPc = "returned"
    /\ tsId = [testSuites |-> <<"install", "network">>, testName |-> "dns-check"]
    /\ tsSuite = TestSuite("other",
                           <<TestCase("dns-check", "failure", "nil")>>,
                           <<TestSuite("network", <<TestCase("dns-check", "nil", "nil")>>, <<>>)>>)
    /\ tsRet = testSkipped

\* the verdict the direct test cases of a suite give for a leaf name
LeafVerdict(testName, testSuite) ==
    LET k == FirstMatch(testName, testSuite)
    IN  IF k = 0 THEN testSkipped
        ELSE IF testSuite.TestCases[k].FailureOutput = Nil THEN testPassed
        ELSE testFailed

\* the children named like the second suite name whose own test cases decide
DecidingChildren(id, testSuite) ==
    {k \in 1..Len(testSuite.Children) :
        /\ testSuite.Children[k].Name = id.testSuites[2]
        /\ LeafVerdict(id.testName, testSuite.Children[k]) # testSkipped}

\* C23: with two suite names, of which the first is the tree's name, the
\* verdict is that of the first child, in child order, that is named like the
\* second suite name and whose test cases decide the leaf name (passed or
\* failed); children with another name, children after it, matching children
\* that give skipped and the tree's own test cases do not count; with no such
\* child the verdict is skipped.
ThmC23_FirstDecidingChild ==
    (tsPc = "returned" /\ Len(tsId.testSuites) = 2
        /\ tsId.testSuites[1] = tsSuite.Name) =>
        LET D == DecidingChildren(tsId, tsSuite)
        IN  IF D = {} THEN tsRet = testSkipped
            ELSE LET first == CHOOSE k \in D : \A m \in D : k <= m
                 IN  tsRet = LeafVerdict(tsId.testName, tsSuite.Children[first])

\* the first child named network has no dns-check case (skipped), the second
\* one has a failing one: failed
WitC23_SkippedChildDoesNotStop ==
    /\ tsPc = "returned"
    /\ tsId = [testSuites |-> <<"install", "network">>, testName |-> "dns-check"]
    /\ tsSuite = TestSuite("install",
                    <<TestCase("dns-check", "nil", "nil")>>,
                    <<TestSuite("network", <<TestCase("other-test", "nil", "nil")>>, <<>>),
                      TestSuite("network", <<TestCase("dns-check", "failure", "nil")>>, <<>>)>>)
    /\ tsRet = testFailed

\* the first deciding child fails and a later one passes: failed
FirstDecidingChildWins ==
    /\ tsPc = "returned"
    /\ tsId = [testSuites |-> <<"install", "network">>, testName |-> "dns-check"]
    /\ tsSuite = TestSuite("install", <<>>,
                    <<TestSuite("network", <<TestCase("dns-check", "failure", "nil")>>, <<>>),
                      TestSuite("network", <<TestCase("dns-check", "nil", "nil")>>, <<>>)>>)
    /\ tsRet = testFailed

\* a child with another name that holds a passing case is not searched
OtherChildNotSearched ==
    /\ tsPc = "returned"
    /\ tsId = [testSuites |-> <<"install", "network">>, testName |-> "dns-check"]
    /\ tsSuite = TestSuite("install", <<>>,
                    <<TestSuite("other", <<TestCase("dns-check", "nil", "nil")>>, <<>>)>>)
    /\ tsRet = testSkipped

\* C31: an identifier without suite names gives skipped on every tree, also
\* on a tree that has a direct test case named exactly like the leaf test.
ThmC31_EmptyPathSkipped ==
    (tsPc = "returned" /\ tsId.testSuites = <<>>) => tsRet = testSkipped

\* the tree has a direct passing test case named dns-check
WitC31_DirectCaseNotMatched ==
    /\ tsPc = "returned"
    /\ tsId = [testSuites |-> <<>>, testName |-> "dns-check"]
    /\ FirstMatch("dns-check", tsSuite) = 1
    /\ tsSuite.TestCases[1].FailureOutput = Nil
    /\ tsRet = testSkipped

\* with the tree's name the only suite name, the first direct test case
\* named like the leaf test decides alone, whatever later cases of that name
\* hold, and it is judged passed when it has no failure output, also when it
\* carries a skip message.
LeafCaseWithSkipMessagePasses ==
    (tsPc = "returned" /\ Len(tsId.testSuites) = 1
        /\ tsId.testSuites[1] = tsSuite.Name
        /\ FirstMatch(tsId.testName, tsSuite) # 0) =>
        LET first == tsSuite.TestCases[FirstMatch(tsId.testName, tsSuite)]
        IN  /\ first.FailureOutput = Nil => tsRet = testPassed
            /\ first.FailureOutput # Nil => tsRet = testFailed
            /\ (first.FailureOutput = Nil /\ first.SkipMessage # Nil)
                  => tsRet = testPassed

\* the first case named dns-check carries a skip message and no failure
\* output, the second one fails: passed
SkippedCaseThenFailing ==
    /\ tsPc = "returned"
    /\ tsId = [testSuites |-> <<"install">>, testName |-> "dns-check"]
    /\ Len(tsSuite.TestCases) = 2
    /\ tsSuite.TestCases[1] = TestCase("dns-check", "nil", "skipped")
    /\ tsSuite.TestCases[2] = TestCase("dns-check", "failure", "nil")
    /\ tsRet = testPassed

----------------------------------------------------------------------------
(* minimumRequiredPassesTestCaseChecker.CheckTestCase                      *)

\* the inner loop over testSuites.Suites: the status of the first suite that
\* yields passed or failed, else that of the last suite (skipped)
RECURSIVE ForestStatusLastDecides(_, _)
ForestStatusLastDecides(id, suites) ==
    IF suites = <<>> THEN testSkipped
    ELSE LET status == getTestStatus(id, Last(suites))
         IN  IF status = testPassed \/ status = testFailed
             THEN status
             ELSE ForestStatusLastDecides(id, Front(suites))
RECURSIVE ForestStatus(_, _)
ForestStatus(id, suites) ==
    IF suites = <<>> THEN testSkipped
    ELSE LET status == getTestStatus(id, Head(suites))
         IN  IF status = testPassed \/ status = testFailed
             THEN status
             ELSE ForestStatus(id, Tail(suites))

\* addTestResultToDetails
addTestResultWithoutSkips(details, jobRun, status) ==
    IF status = testPassed
    THEN [details EXCEPT !.Passes = Append(@, [JobRunID |-> jobRun])]
    ELSE IF status = testFailed
    THEN [details EXCEPT !.Failures = Append(@, [JobRunID |-> jobRun])]
    ELSE details
addTestResultToDetails(details, jobRun, status) ==
    IF status = testPassed
    THEN [details EXCEPT !.Passes = Append(@, [JobRunID |-> jobRun])]
    ELSE IF status = testFailed
    THEN [details EXCEPT !.Failures = Append(@, [JobRunID |-> jobRun])]
    ELSE [details EXCEPT !.Skips = Append(@, [JobRunID |-> jobRun])]

\* addToTestSuiteFromSuiteNames on a fresh top suite, with the synthetic test
\* case appended to the bottom suite
RECURSIVE SuiteChain(_, _, _)
SuiteChain(name, suiteNames, testCase) ==
    IF suiteNames = <<>>
    THEN TestSuite(name, <<testCase>>, <<>>)
    ELSE TestSuite(name, <<>>,
                   <<SuiteChain(Head(suiteNames), Tail(suiteNames), testCase)>>)

RECURSIVE SumOver(_, _)
SumOver(seq, field) ==
    IF seq = <<>> THEN 0 ELSE seq[1][field] + SumOver(Tail(seq), field)

\* updateTestCountsInSuite
updateTestCountsOwnCasesOnly(suite) ==
    [suite EXCEPT
        !.NumTests = Len(suite.TestCases),
        !.NumFailed = Cardinality({k \in 1..Len(suite.TestCases) :
                                      suite.TestCases[k].FailureOutput # Nil})]
RECURSIVE updateTestCountsInSuite(_)
updateTestCountsInSuite(suite) ==
    LET children == [k \in 1..Len(suite.Children) |->
                        updateTestCountsInSuite(suite.Children[k])]
        failed == {k \in 1..Len(suite.TestCases) :
                        suite.TestCases[k].FailureOutput # Nil}
    IN  [suite EXCEPT
            !.Children = children,
            !.NumTests = Len(suite.TestCases) + SumOver(children, "NumTests"),
            !.NumFailed = Cardinality(failed) + SumOver(children, "NumFailed")]

\* if successCount < r.requiredNumberOfPasses
BelowMinimumOrEqual(count, required) == count <= required
BelowMinimum(count, required) == count < required

\* fmt.Sprintf("required minimum successful count %d, got %d", ...)
FailureMessage(required, count) ==
    <<"required minimum successful count ", ToDec(required), ", got ", ToDec(count)>>

\* the synthetic test case as CheckTestCase leaves it
SyntheticTestCase(id, required, count) ==
    [Name |-> <<"test '", id.testName,
               "' has required number of successful passes across payload jobs">>,
     FailureOutput |-> IF BelowMinimum(count, required)
                       THEN Ptr([Message |-> FailureMessage(required, count)])
                       ELSE Nil,
     SkipMessage |-> Nil]

\* --- checkers and maps tried ---
MaxRuns == 3
MaxRequired == 3

PassingSuite ==
    TestSuite("install", <<>>,
        <<TestSuite("network", <<TestCase("dns-check", "nil", "nil")>>, <<>>)>>)
FailingSuite ==
    TestSuite("install", <<>>,
        <<TestSuite("network", <<TestCase("dns-check", "failure", "nil")>>, <<>>)>>)
OtherSuite ==
    TestSuite("other", <<TestCase("dns-check", "nil", "nil")>>, <<>>)
SkippedThenFailingSuite ==
    TestSuite("install", <<>>,
        <<TestSuite("network", <<TestCase("dns-check", "nil", "skipped"),
                                 TestCase("dns-check", "failure", "nil")>>, <<>>)>>)

Forests ==
    { <<>>, <<PassingSuite>>, <<FailingSuite>>, <<OtherSuite>>,
      <<OtherSuite, PassingSuite>>, <<FailingSuite, PassingSuite>>,
      <<SkippedThenFailingSuite>> }

JobRunIDs == 1..MaxRuns

EmptyDetails == [Passes |-> <<>>, Failures |-> <<>>, Skips |-> <<>>]

CtIdle ==
    /\ ctId = [testSuites |-> <<>>, testName |-> ""]
    /\ requiredNumberOfPasses = 0
    /\ jobRunJunits = <<>>
    /\ ctTodo = {}
    /\ successCount = 0
    /\ currDetails = EmptyDetails
    /\ ctRet = Nil
    /\ ctPc = "idle"

CtStart ==
    /\ ctId = [testSuites |-> <<"install", "network">>, testName |-> "dns-check"]
    /\ requiredNumberOfPasses \in 0..MaxRequired
    /\ jobRunJunits \in [JobRunIDs -> Forests]
    /\ ctTodo = JobRunIDs
    /\ successCount = 0
    /\ currDetails = EmptyDetails
    /\ ctRet = Nil
    /\ ctPc = "range"

\* one iteration of: for jobRun, testSuites := range jobRunJunits
\* (a Go map is ranged over in an unspecified order)
CtVisit ==
    /\ ctPc = "range"
    /\ \E jobRun \in ctTodo :
          LET status == ForestStatus(ctId, jobRunJunits[jobRun])
          IN  /\ successCount' = IF status = testPassed
                                 THEN successCount + 1 ELSE successCount
              /\ currDetails' = addTestResultToDetails(currDetails, jobRun, status)
              /\ ctTodo' = ctTodo \ {jobRun}
    /\ UNCHANGED <<ctId, requiredNumberOfPasses, jobRunJunits, ctRet, ctPc>>
    /\ UNCHANGED exceptCheckTestCase

\* after the loop: the failure output, updateTestCountsInSuite, return topSuite
CtReturn ==
    /\ ctPc = "range"
    /\ ctTodo = {}
    /\ ctRet' = Ptr(updateTestCountsInSuite(
                    SuiteChain("minimum-required-passes-checker", ctId.testSuites,
                        SyntheticTestCase(ctId, requiredNumberOfPasses, successCount))))
    /\ ctPc' = "returned"
    /\ UNCHANGED <<ctId, requiredNumberOfPasses, jobRunJunits, ctTodo,
                   successCount, currDetails>>
    /\ UNCHANGED exceptCheckTestCase

CtNext == CtVisit \/ CtReturn

\* the test case of the innermost suite of a returned suite chain
RECURSIVE BottomTestCase(_)
BottomTestCase(suite) ==
    IF suite.Children = <<>> THEN suite.TestCases[1]
    ELSE BottomTestCase(suite.Children[1])

\* C5: the synthetic test case carries failure output if and only if the
\* number of runs in the passed bucket is strictly less than the required
\* minimum, and its message is then exactly
\* "required minimum successful count <min>, got <size of the passed bucket>".
ThmC5_FailureIffBelowMinimum ==
    ctPc = "returned" =>
        LET testCase == BottomTestCase(ctRet[1])
            passes == Len(currDetails.Passes)
        IN  /\ (testCase.FailureOutput # Nil) <=> (passes < requiredNumberOfPasses)
            /\ testCase.FailureOutput # Nil =>
                   testCase.FailureOutput[1].Message =
                       <<"required minimum successful count ",
                         ToDec(requiredNumberOfPasses), ", got ", ToDec(passes)>>

\* minimum 3 with two runs in the passed bucket:
\* "required minimum successful count 3, got 2"
WitC5_Min3Got2 ==
    /\ ctPc = "returned"
    /\ requiredNumberOfPasses = 3
    /\ Len(currDetails.Passes) = 2
    /\ BottomTestCase(ctRet[1]).FailureOutput =
           Ptr([Message |-> <<"required minimum successful count ",
                              <<Ch0 + 3>>, ", got ", <<Ch0 + 2>>>>])

\* minimum 3 with three passes: no failure output
Min3Got3 ==
    /\ ctPc = "returned"
    /\ requiredNumberOfPasses = 3
    /\ Len(currDetails.Passes) = 3
    /\ BottomTestCase(ctRet[1]).FailureOutput = Nil

\* how often a run is named in a bucket
Occurrences(refs, jobRun) ==
    Cardinality({k \in 1..Len(refs) : refs[k].JobRunID = jobRun})

\* no suite of the run's forest yields passed or failed
NoSuiteDecides(jobRun) ==
    \A k \in 1..Len(jobRunJunits[jobRun]) :
        getTestStatus(ctId, jobRunJunits[jobRun][k]) = testSkipped

\* C24: when CheckTestCase has returned, every run of the map is named
\* exactly once over the passed, failed and skipped buckets together, in the
\* skipped bucket exactly when no suite of its forest decided; the three
\* sizes sum to the size of the map, and successCount is the size of the
\* passed bucket.
ThmC24_EveryRunInOneBucket ==
    ctPc = "returned" =>
        /\ \A jobRun \in DOMAIN jobRunJunits :
              /\ Occurrences(currDetails.Passes, jobRun)
                   + Occurrences(currDetails.Failures, jobRun)
                   + Occurrences(currDetails.Skips, jobRun) = 1
              /\ Occurrences(currDetails.Skips, jobRun) = 1 <=> NoSuiteDecides(jobRun)
        /\ Len(currDetails.Passes) + Len(currDetails.Failures)
             + Len(currDetails.Skips) = Cardinality(DOMAIN jobRunJunits)
        /\ successCount = Len(currDetails.Passes)

\* one run passed, one failed, one was skipped
WitC24_OneRunInEachBucket ==
    /\ ctPc = "returned"
    /\ Len(currDetails.Passes) = 1
    /\ Len(currDetails.Failures) = 1
    /\ Len(currDetails.Skips) = 1

\* the suites of a run's forest that yield passed or failed
DecidingSuites(jobRun) ==
    {k \in 1..Len(jobRunJunits[jobRun]) :
        getTestStatus(ctId, jobRunJunits[jobRun][k]) # testSkipped}

\* the verdict of the first deciding suite of the forest, skipped without one
FirstDecidingVerdict(jobRun) ==
    LET D == DecidingSuites(jobRun)
    IN  IF D = {} THEN testSkipped
        ELSE getTestStatus(ctId,
                 jobRunJunits[jobRun][CHOOSE k \in D : \A m \in D : k <= m])

\* C25: when CheckTestCase has returned, each run is recorded under the
\* verdict of the first suite of its forest, in forest order, that yields
\* passed or failed, whatever later suites yield, and as skipped when no suite
\* decides; successCount counts the runs whose first deciding suite passed.
ThmC25_FirstDecidingSuiteWins ==
    ctPc = "returned" =>
        /\ \A jobRun \in DOMAIN jobRunJunits :
              LET v == FirstDecidingVerdict(jobRun)
              IN  /\ v = testPassed => Occurrences(currDetails.Passes, jobRun) = 1
                  /\ v = testFailed => Occurrences(currDetails.Failures, jobRun) = 1
                  /\ v = testSkipped => Occurrences(currDetails.Skips, jobRun) = 1
        /\ successCount = Cardinality({jobRun \in DOMAIN jobRunJunits :
                                          FirstDecidingVerdict(jobRun) = testPassed})

\* every run's forest is a failing suite followed by a passing one: all are
\* recorded as failed and none counts as a success
WitC25_FailThenPassIsFailed ==
    /\ ctPc = "returned"
    /\ \A jobRun \in DOMAIN jobRunJunits :
          jobRunJunits[jobRun] = <<FailingSuite, PassingSuite>>
    /\ Len(currDetails.Failures) = Cardinality(DOMAIN jobRunJunits)
    /\ successCount = 0

\* a suite that does not match, then a passing one: passed
SkippedSuiteThenPass ==
    /\ ctPc = "returned"
    /\ jobRunJunits[1] = <<OtherSuite, PassingSuite>>
    /\ Occurrences(currDetails.Passes, 1) = 1

\* the suites of the chain below a suite, the suite itself first
RECURSIVE ChainOf(_)
ChainOf(suite) ==
    IF suite.Children = <<>> THEN <<suite>>
    ELSE <<suite>> \o ChainOf(suite.Children[1])

\* C26: the returned suite is a chain: the top suite
\* "minimum-required-passes-checker", then one suite per suite name of the
\* identifier, each the only child of the one before and without test cases of
\* its own, except the innermost, which holds the one synthetic test case; in
\* every suite of the chain NumTests is 1 and NumFailed is 1 when the test
\* case carries failure output (successCount below the minimum) and else 0.
ThmC26_CountsBubbleUp ==
    ctPc = "returned" =>
        LET chain == ChainOf(ctRet[1])
            n == Len(ctId.testSuites)
            failed == IF successCount < requiredNumberOfPasses THEN 1 ELSE 0
        IN  /\ Len(chain) = n + 1
            /\ chain[1].Name = "minimum-required-passes-checker"
            /\ \A k \in 1..n : chain[k + 1].Name = ctId.testSuites[k]
            /\ \A k \in 1..n : Len(chain[k].Children) = 1 /\ chain[k].TestCases = <<>>
            /\ chain[n + 1].Children = <<>>
            /\ Len(chain[n + 1].TestCases) = 1
            /\ (chain[n + 1].TestCases[1].FailureOutput # Nil) <=> (failed = 1)
            /\ \A k \in 1..(n + 1) :
                  chain[k].NumTests = 1 /\ chain[k].NumFailed = failed

\* the gate was not met: the failure is counted in the top suite
WitC26_FailureCountedAtTop ==
    /\ ctPc = "returned"
    /\ successCount < requiredNumberOfPasses
    /\ ctRet[1].NumTests = 1
    /\ ctRet[1].NumFailed = 1
    /\ ctRet[1].TestCases = <<>>

GateMetCountedAtTop ==
    /\ ctPc = "returned"
    /\ successCount >= requiredNumberOfPasses
    /\ ctRet[1].NumTests = 1
    /\ ctRet[1].NumFailed = 0

\* the evidence buckets of the execution that visits the runs in the order
\* given
RECURSIVE DetailsVisiting(_, _)
DetailsVisiting(order, details) ==
    IF order = <<>> THEN details
    ELSE DetailsVisiting(Tail(order),
             addTestResultToDetails(details, Head(order),
                 ForestStatus(ctId, jobRunJunits[Head(order)])))

\* the runs of the map in ascending order: one of the orders a range over
\* the map can take
RECURSIVE AscendingRuns(_)
AscendingRuns(runs) ==
    IF runs = {} THEN <<>>
    ELSE LET least == CHOOSE r \in runs : \A q \in runs : r <= q
         IN  <<least>> \o AscendingRuns(runs \ {least})

\* C27: the output of CheckTestCase is fixed by the map: every execution
\* leaves the evidence buckets, run references in the same order, that the
\* execution visiting the runs in ascending order leaves.
CexC27_BucketsIndependentOfVisitOrder ==
    ctPc = "returned" =>
        currDetails = DetailsVisiting(AscendingRuns(DOMAIN jobRunJunits), EmptyDetails)

\* what the code keeps: the runs named in each bucket, the success count and
\* the returned suite do not depend on the order of the visits
BucketRuns(refs) == {refs[k].JobRunID : k \in 1..Len(refs)}
VerdictIndependentOfVisitOrder ==
    ctPc = "returned" =>
        LET ref == DetailsVisiting(AscendingRuns(DOMAIN jobRunJunits), EmptyDetails)
        IN  /\ BucketRuns(currDetails.Passes) = BucketRuns(ref.Passes)
            /\ BucketRuns(currDetails.Failures) = BucketRuns(ref.Failures)
            /\ BucketRuns(currDetails.Skips) = BucketRuns(ref.Skips)
            /\ successCount = Len(ref.Passes)
            /\ ctRet = Ptr(updateTestCountsInSuite(
                         SuiteChain("minimum-required-passes-checker", ctId.testSuites,
                             SyntheticTestCase(ctId, requiredNumberOfPasses,
                                               Len(ref.Passes)))))

\* two passing runs recorded in descending order
PassesInDescendingOrder ==
    /\ ctPc = "returned"
    /\ Len(currDetails.Passes) >= 2
    /\ currDetails.Passes[1].JobRunID > currDetails.Passes[2].JobRunID

\* the first suite of the forest is install/network and the first test case
\* named dns-check of its network suite has no failure output
FirstLeafCaseHasNoFailure(forest) ==
    /\ forest # <<>>
    /\ forest[1].Name = "install"
    /\ forest[1].Children # <<>>
    /\ LET leaf == forest[1].Children[1]
           k == FirstMatch("dns-check", leaf)
       IN  /\ leaf.Name = "network"
           /\ k # 0
           /\ leaf.TestCases[k].FailureOutput = Nil

\* C36: a run whose matched leaf test case (the first one of that name) has
\* no failure output is recorded as passed and counted in successCount, also
\* when that test case carries a skip message and a later test case of the
\* same name fails; the gate is judged on that count.
ThmC36_SkipMessageCountsAsPass ==
    ctPc = "returned" =>
        LET passing == {jobRun \in DOMAIN jobRunJunits :
                            FirstLeafCaseHasNoFailure(jobRunJunits[jobRun])}
        IN  /\ \A jobRun \in passing : Occurrences(currDetails.Passes, jobRun) = 1
            /\ successCount >= Cardinality(passing)
            /\ Cardinality(passing) >= requiredNumberOfPasses
                  => BottomTestCase(ctRet[1]).FailureOutput = Nil

\* every run's matched test case carries a skip message and is followed by a
\* failing one of the same name: all runs count and the gate is met
WitC36_SkippedCasesMeetTheGate ==
    /\ ctPc = "returned"
    /\ \A jobRun \in DOMAIN jobRunJunits :
          jobRunJunits[jobRun] = <<SkippedThenFailingSuite>>
    /\ requiredNumberOfPasses = Cardinality(DOMAIN jobRunJunits)
    /\ successCount = requiredNumberOfPasses
    /\ BottomTestCase(ctRet[1]).FailureOutput = Nil

----------------------------------------------------------------------------
(* ciGCSClient.ListJobRunNamesOlderThanFourHours                           *)

\* An object of the bucket is [dir, file, age]: its name is
\* "logs/<jobName>/<dir>/<file>" ("logs/<jobName>/<file>" when dir is empty)
\* and age is now.Sub(attrs.Created) in hours.
TooOldHours == 17
TooYoungHours == 4
JobRunChCap == 100

\* the run id the scan is hard-wired to start from
HardCodedStart == Dec(<<1,4,7,5,6,1,4,3,6,3,5,1,8,7,6,7,1,0,4>>)

\* the first byte of a file name; those of the store differ in it
FirstByte(file) ==
    CASE file = "build-log.txt" -> Byte("b")
      [] file = "finished.json" -> Byte("f")
      [] file = "latest-build.txt" -> Byte("l")
      [] file = "prowjob.json" -> Byte("p")
      [] file = "artifacts/junit/junit_e2e.xml" -> Byte("a")

\* an object's name after "logs/<jobName>/", as far as it decides the order
NameKey(o) ==
    IF o.dir = <<>> THEN <<FirstByte(o.file)>>
    ELSE o.dir \o <<ChSlash, FirstByte(o.file)>>

\* bkt.Objects(ctx, query): the objects at or after StartOffset, in name order
RECURSIVE InNameOrder(_)
InNameOrder(objs) ==
    IF objs = {} THEN <<>>
    ELSE LET first == CHOOSE x \in objs :
                          \A y \in objs : StrLeq(NameKey(x), NameKey(y))
         IN  <<first>> \o InNameOrder(objs \ {first})

Objects(objs, startOffset) ==
    InNameOrder({o \in objs : StrLeq(startOffset, NameKey(o))})

\* query.StartOffset = fmt.Sprintf("logs/%s/%s", jobName, "1475614363518767104")
InitialStartOffsetFromArgument(starting) == starting
InitialStartOffset(starting) == HardCodedStart

\* strings.Split(attrs.Name, "/")[2] and filepath.Base(filepath.Dir(attrs.Name))
ThirdSegment(o) == o.dir

HasSuffixJson(o) == o.file \in {"finished.json", "prowjob.json"}

\* what one loop iteration does with the object it.Next() returned
Classify(o) ==
    IF o.age > TooOldHours
    THEN IF o.file = "latest-build.txt" THEN "continue"
         ELSE IF HasSuffixJson(o) THEN "fastForward"
         ELSE "continue"
    ELSE IF o.age < TooYoungHours
    THEN IF o.file = "latest-build.txt" THEN "continue"
         ELSE IF o.file = "build-log.txt" THEN "fastForward"
         ELSE IF HasSuffixJson(o) THEN "fastForward"
         ELSE "continue"
    ELSE IF o.file = "prowjob.json" THEN "found"
         ELSE "continue"

\* defer close(jobRunProcessingCh)
CloseOnlyWhenExhausted(exit) == exit = "exhausted"
CloseOnReturn(exit) == TRUE

\* --- buckets tried ---
MaxBucketObjects == 3
\* the walk of a bucket whose run ids differ in length need not end: the model
\* follows it until this many ids were sent
MaxSent == 102

\* run ids around the hard-wired start
RunIdPool ==
    { MagDec(HardCodedStart), HardCodedStart, MagInc(HardCodedStart) }

\* the objects a run directory may hold: logs, result and metadata files of
\* the three age bands
RunDirContents(dir) ==
    IF dir = MagDec(HardCodedStart)
    THEN { [dir |-> dir, file |-> "prowjob.json", age |-> 4] }
    ELSE { [dir |-> dir, file |-> "build-log.txt", age |-> a] : a \in {3, 18} }
         \cup { [dir |-> dir, file |-> "finished.json", age |-> a] : a \in {10, 18} }
         \cup { [dir |-> dir, file |-> "prowjob.json", age |-> a] : a \in {3, 4, 17, 18} }

\* latest-build.txt at the job's root, and a directory whose name is no number
RootObjects ==
    { [dir |-> <<>>, file |-> "latest-build.txt", age |-> a] : a \in {3, 10, 18} }
    \cup { [dir |-> <<ChX>>, file |-> "finished.json", age |-> 18] }

BucketObjects == RootObjects \cup UNION { RunDirContents(d) : d \in RunIdPool }

RECURSIVE SubsetsUpTo(_, _)
SubsetsUpTo(S, k) ==
    IF k = 0 \/ S = {} THEN {{}}
    ELSE LET x == CHOOSE y \in S : TRUE
             rest == S \ {x}
         IN  SubsetsUpTo(rest, k) \cup {T \cup {x} : T \in SubsetsUpTo(rest, k - 1)}

\* object names are unique in a bucket
UniqueNames(objs) ==
    \A x \in objs, y \in objs : (x.dir = y.dir /\ x.file = y.file) => x = y

Buckets == { B \in SubsetsUpTo(BucketObjects, MaxBucketObjects) : UniqueNames(B) }

\* buckets that also hold a run id of a single digit
MaxMixedObjects == 2
ShortRunId == Dec(<<9>>)
MixedObjects ==
    { [dir |-> ShortRunId, file |-> "prowjob.json", age |-> 4],
      [dir |-> ShortRunId, file |-> "finished.json", age |-> 18],
      [dir |-> <<>>, file |-> "latest-build.txt", age |-> 18],
      [dir |-> <<ChX>>, file |-> "finished.json", age |-> 18] }
MixedBuckets == SubsetsUpTo(MixedObjects, MaxMixedObjects)

WIdle ==
    /\ bucket = {}
    /\ startingID = <<>>
    /\ queryStartOffset = <<>>
    /\ it = <<>>
    /\ jobRunProcessingCh = <<>>
    /\ jobRunProcessingChClosed = FALSE
    /\ errorCh = <<>>
    /\ pCancelled = FALSE
    /\ pPc = "idle"
    /\ jobRunId = <<>>
    /\ pExit = "none"
    /\ pSent = <<>>

\* the function has returned the channels and the goroutine is at its loop
WStart ==
    /\ bucket \in Buckets
    /\ startingID \in {<<>>, MagInc(HardCodedStart)}
    /\ queryStartOffset = InitialStartOffset(startingID)
    /\ it = Objects(bucket, queryStartOffset)
    /\ jobRunProcessingCh = <<>>
    /\ jobRunProcessingChClosed = FALSE
    /\ errorCh = <<>>
    /\ pCancelled = FALSE
    /\ pPc = "loop"
    /\ jobRunId = <<>>
    /\ pExit = "none"
    /\ pSent = <<>>

WStartMixed ==
    /\ bucket \in MixedBuckets
    /\ startingID = <<>>
    /\ queryStartOffset = InitialStartOffset(startingID)
    /\ it = Objects(bucket, queryStartOffset)
    /\ jobRunProcessingCh = <<>>
    /\ jobRunProcessingChClosed = FALSE
    /\ errorCh = <<>>
    /\ pCancelled = FALSE
    /\ pPc = "loop"
    /\ jobRunId = <<>>
    /\ pExit = "none"
    /\ pSent = <<>>

\* if ctx.Err() != nil { return }
WkCtxDone ==
    /\ pPc = "loop"
    /\ pCancelled
    /\ pExit' = "cancelled"
    /\ pPc' = "return"
    /\ UNCHANGED <<bucket, startingID, queryStartOffset, it, jobRunProcessingCh,
                   jobRunProcessingChClosed, errorCh, pCancelled, jobRunId, pSent>>
    /\ UNCHANGED exceptWalker

\* it.Next() returns iterator.Done
WkListDone ==
    /\ pPc = "loop"
    /\ ~pCancelled
    /\ it = <<>>
    /\ pExit' = "exhausted"
    /\ pPc' = "return"
    /\ UNCHANGED <<bucket, startingID, queryStartOffset, it, jobRunProcessingCh,
                   jobRunProcessingChClosed, errorCh, pCancelled, jobRunId, pSent>>
    /\ UNCHANGED exceptWalker

\* it.Next() returns another error: errorCh <- err; return
WkListError ==
    /\ pPc = "loop"
    /\ ~pCancelled
    /\ Len(errorCh) < JobRunChCap
    /\ errorCh' = Append(errorCh, "errList")
    /\ pExit' = "error"
    /\ pPc' = "return"
    /\ UNCHANGED <<bucket, startingID, queryStartOffset, it, jobRunProcessingCh,
                   jobRunProcessingChClosed, pCancelled, jobRunId, pSent>>
    /\ UNCHANGED exceptWalker

\* it.Next() returns an object that is passed over: continue
WkContinue ==
    /\ pPc = "loop"
    /\ ~pCancelled
    /\ it # <<>>
    /\ Classify(Head(it)) = "continue"
    /\ it' = Tail(it)
    /\ UNCHANGED <<bucket, startingID, queryStartOffset, jobRunProcessingCh,
                   jobRunProcessingChClosed, errorCh, pCancelled, pPc, jobRunId,
                   pExit, pSent>>
    /\ UNCHANGED exceptWalker

\* it.Next() returns an object of a run to skip: the cursor moves to
\* NextJobRunID of its run and the listing is issued again
WkFastForward ==
    /\ pPc = "loop"
    /\ ~pCancelled
    /\ it # <<>>
    /\ Classify(Head(it)) = "fastForward"
    /\ ~NextJobRunIDPanics(ThirdSegment(Head(it)))
    /\ jobRunId' = ThirdSegment(Head(it))
    /\ queryStartOffset' = NextJobRunID(ThirdSegment(Head(it)))
    /\ it' = Objects(bucket, NextJobRunID(ThirdSegment(Head(it))))
    /\ UNCHANGED <<bucket, startingID, jobRunProcessingCh,
                   jobRunProcessingChClosed, errorCh, pCancelled, pPc, pExit, pSent>>
    /\ UNCHANGED exceptWalker

\* ... or NextJobRunID panics on a directory name that is no number
WkPanic ==
    /\ pPc = "loop"
    /\ ~pCancelled
    /\ it # <<>>
    /\ Classify(Head(it)) = "fastForward"
    /\ NextJobRunIDPanics(ThirdSegment(Head(it)))
    /\ jobRunId' = ThirdSegment(Head(it))
    /\ pExit' = "panic"
    /\ pPc' = "return"
    /\ UNCHANGED <<bucket, startingID, queryStartOffset, it, jobRunProcessingCh,
                   jobRunProcessingChClosed, errorCh, pCancelled, pSent>>
    /\ UNCHANGED exceptWalker

\* it.Next() returns a prowjob.json in the wanted age band: the goroutine
\* comes to the send of its run id
WkFound ==
    /\ pPc = "loop"
    /\ ~pCancelled
    /\ it # <<>>
    /\ Classify(Head(it)) = "found"
    /\ Len(pSent) < MaxSent
    /\ jobRunId' = ThirdSegment(Head(it))
    /\ pPc' = "send"
    /\ UNCHANGED <<bucket, startingID, queryStartOffset, it, jobRunProcessingCh,
                   jobRunProcessingChClosed, errorCh, pCancelled, pExit, pSent>>
    /\ UNCHANGED exceptWalker

\* jobRunProcessingCh <- jobRunId (blocks while the buffer is full), then the
\* cursor moves past the run and the listing is issued again, or NextJobRunID
\* panics
WkSend ==
    /\ pPc = "send"
    /\ Len(jobRunProcessingCh) < JobRunChCap
    /\ jobRunProcessingCh' = Append(jobRunProcessingCh, jobRunId)
    /\ pSent' = Append(pSent, jobRunId)
    /\ IF NextJobRunIDPanics(jobRunId)
       THEN /\ pExit' = "panic"
            /\ pPc' = "return"
            /\ UNCHANGED <<queryStartOffset, it>>
       ELSE /\ queryStartOffset' = NextJobRunID(jobRunId)
            /\ it' = Objects(bucket, NextJobRunID(jobRunId))
            /\ pPc' = "loop"
            /\ pExit' = pExit
    /\ UNCHANGED <<bucket, startingID, jobRunProcessingChClosed, errorCh,
                   pCancelled, jobRunId>>
    /\ UNCHANGED exceptWalker

\* the goroutine's function ends: the deferred close runs
WkClose ==
    /\ pPc = "return"
    /\ jobRunProcessingChClosed' = CloseOnReturn(pExit)
    /\ pPc' = "done"
    /\ UNCHANGED <<bucket, startingID, queryStartOffset, it, jobRunProcessingCh,
                   errorCh, pCancelled, jobRunId, pExit, pSent>>
    /\ UNCHANGED exceptWalker

\* the consumer receives one run id
WkReceive ==
    /\ jobRunProcessingCh # <<>>
    /\ jobRunProcessingCh' = Tail(jobRunProcessingCh)
    /\ UNCHANGED <<bucket, startingID, queryStartOffset, it,
                   jobRunProcessingChClosed, errorCh, pCancelled, pPc, jobRunId,
                   pExit, pSent>>
    /\ UNCHANGED exceptWalker

\* the context is cancelled
WkCancel ==
    /\ pPc # "done"
    /\ ~pCancelled
    /\ pCancelled' = TRUE
    /\ UNCHANGED <<bucket, startingID, queryStartOffset, it, jobRunProcessingCh,
                   jobRunProcessingChClosed, errorCh, pPc, jobRunId, pExit, pSent>>
    /\ UNCHANGED exceptWalker

WNext ==
    \/ WkCtxDone
    \/ WkListDone
    \/ WkListError
    \/ WkContinue
    \/ WkFastForward
    \/ WkPanic
    \/ WkFound
    \/ WkSend
    \/ WkClose
    \/ WkReceive
    \/ WkCancel

\* the steps of the producer goroutine; the consumer's receives, the
\* cancellation and the failure of a listing call are the environment's
WkProducer ==
    \/ WkCtxDone
    \/ WkListDone
    \/ WkContinue
    \/ WkFastForward
    \/ WkPanic
    \/ WkFound
    \/ WkSend
    \/ WkClose

\* the run ids whose prowjob.json lies in the candidate band, among the objects
\* the listing yields from its first start offset on
InCandidateBand(o) == o.age >= TooYoungHours /\ o.age <= TooOldHours
Listed == {o \in bucket : StrLeq(InitialStartOffset(startingID), NameKey(o))}
CandidateRunIds ==
    {o.dir : o \in {x \in Listed : x.file = "prowjob.json" /\ InCandidateBand(x)}}

RECURSIVE Ascending(_)
Ascending(ids) ==
    IF ids = {} THEN <<>>
    ELSE LET least == CHOOSE x \in ids : \A y \in ids : x = y \/ MagLess(x, y)
         IN  <<least>> \o Ascending(ids \ {least})

\* C4 as stated: once the walk has exhausted the listing, the ids sent on the
\* output channel are exactly the run ids whose prowjob.json lies in the
\* candidate band, in ascending order, each once.
CexC4_SendsExactlyTheCandidates ==
    (pPc = "done" /\ pExit = "exhausted") => pSent = Ascending(CandidateRunIds)

\* What holds of the code: every id sent is that of a run whose prowjob.json
\* is in the candidate band.
SendsOnlyCandidates ==
    \A k \in 1..Len(pSent) :
        \E o \in bucket :
            o.dir = pSent[k] /\ o.file = "prowjob.json" /\ InCandidateBand(o)

\* C10: the producer goroutine never ends without having closed the output
\* channel, however it left its loop (listing exhausted, context cancelled,
\* listing error, panic), it closes it nowhere else, and when it left on a
\* listing error the error is already on the error channel when the return,
\* and so the close, happens.
ThmC10_ClosedOnEveryReturn ==
    /\ pPc = "done" => jobRunProcessingChClosed
    /\ jobRunProcessingChClosed => pPc = "done"
    /\ pPc \in {"return", "done"} <=> pExit # "none"
    /\ pExit = "error" => errorCh = <<"errList">>
    /\ pExit # "error" => errorCh = <<>>

\* a run id was sent, the next it.Next() failed: error signalled, channel closed
WitC10_ClosedAfterListingError ==
    /\ pPc = "done"
    /\ pExit = "error"
    /\ pSent # <<>>
    /\ errorCh = <<"errList">>
    /\ jobRunProcessingChClosed

ClosedAfterCancel ==
    pPc = "done" /\ pExit = "cancelled" /\ pSent # <<>> /\ jobRunProcessingChClosed

ClosedAfterExhaustion ==
    pPc = "done" /\ pExit = "exhausted" /\ pSent # <<>> /\ jobRunProcessingChClosed

----------------------------------------------------------------------------
(* ciGCSClient.ReadJobRunFromGCS                                           *)

\* An object under jobGCSRootLocation ("logs/<jobName>", as the walker has
\* it) is [dir, file]: its name is "logs/<jobName>/<dir>/<file>".
JunitFile == "artifacts/junit/junit_e2e.xml"

\* strings.HasSuffix(attrs.Name, "prowjob.json")
IsProwJob(o) == o.file = "prowjob.json"
\* strings.HasSuffix(attrs.Name, ".xml") && strings.Contains(attrs.Name, "/junit")
IsJunit(o) == o.file = JunitFile

\* bkt.Objects(ctx, query) with StartOffset root/jobRunID (inclusive) and
\* EndOffset root/NextJobRunID(jobRunID) (exclusive), in name order
InRange(o, startOffset, endOffset) ==
    StrLeq(startOffset, NameKey(o)) /\ StrLess(NameKey(o), endOffset)
RangeObjects(objs, startOffset, endOffset) ==
    InNameOrder({o \in objs : InRange(o, startOffset, endOffset)})

\* jobrunaggregatorapi.NewGCSJobRun(bkt, jobGCSRootLocation, jobName, jobRunId),
\* SetGCSProwJobPath and AddGCSJunitPaths; a path is the object it names
NewGCSJobRun(id) == [jobRunID |-> id, prowJobPath |-> <<>>, junitPaths |-> <<>>]
OrNew(jobRun, id) == IF jobRun = Nil THEN NewGCSJobRun(id) ELSE jobRun[1]
SetGCSProwJobPath(jr, o) == [jr EXCEPT !.prowJobPath = <<o>>]
AddGCSJunitPaths(jr, o) == [jr EXCEPT !.junitPaths = Append(@, o)]

\* len(jobRun.GetGCSProwJobPath()) == 0
ProwJobPathNeverEmpty(jr) == FALSE
ProwJobPathEmpty(jr) == jr.prowJobPath = <<>>

\* the pairs the function returns
ReturnNotFound == [jobRun |-> Nil, err |-> Nil]
ReturnListError == [jobRun |-> Nil, err |-> Ptr("errList")]
FetchFailureNotFound == [jobRun |-> Nil, err |-> Nil]
FetchFailure == [jobRun |-> Nil, err |-> Ptr("failed to get prowjob")]

\* --- stores and arguments tried ---
MaxStoreRuns == 2

\* run ids of one and two digits: "10" lies between "1" and "2" in name order
StoreRunIds == { Dec(<<1>>), Dec(<<1, 0>>), Dec(<<2>>) }

DirContents(dir) ==
    SUBSET { [dir |-> dir, file |-> f] :
                 f \in {"build-log.txt", "prowjob.json", JunitFile} }

RECURSIVE StoresOver(_)
StoresOver(dirs) ==
    IF dirs = {} THEN {{}}
    ELSE LET d == CHOOSE x \in dirs : TRUE
         IN  {c \cup rest : c \in DirContents(d), rest \in StoresOver(dirs \ {d})}

Stores ==
    UNION {StoresOver(dirs) :
               dirs \in {D \in SUBSET StoreRunIds : Cardinality(D) <= MaxStoreRuns}}

ResolverRunIDs == StoreRunIds \cup { <<>>, <<ChX>> }

RrIdle ==
    /\ rrStore = {}
    /\ rrRunID = <<>>
    /\ rrIt = <<>>
    /\ rrJobRun = Nil
    /\ rrPc = "idle"
    /\ rrFetched = "no"
    /\ rrRet = <<>>

\* the function is entered
RrStart ==
    /\ rrStore \in Stores
    /\ rrRunID \in ResolverRunIDs
    /\ rrIt = <<>>
    /\ rrJobRun = Nil
    /\ rrPc = "query"
    /\ rrFetched = "no"
    /\ rrRet = <<>>

\* the query is built (NextJobRunID may panic) and the listing is issued
RrQuery ==
    /\ rrPc = "query"
    /\ IF NextJobRunIDPanics(rrRunID)
       THEN /\ rrPc' = "panicked"
            /\ rrIt' = rrIt
       ELSE /\ rrPc' = "loop"
            /\ rrIt' = RangeObjects(rrStore, rrRunID, NextJobRunID(rrRunID))
    /\ UNCHANGED <<rrStore, rrRunID, rrJobRun, rrFetched, rrRet>>
    /\ UNCHANGED exceptResolver

\* it.Next() returns iterator.Done: break
RrListDone ==
    /\ rrPc = "loop"
    /\ rrIt = <<>>
    /\ rrPc' = "listed"
    /\ UNCHANGED <<rrStore, rrRunID, rrIt, rrJobRun, rrFetched, rrRet>>
    /\ UNCHANGED exceptResolver

\* it.Next() returns another error: return nil, err
RrListError ==
    /\ rrPc = "loop"
    /\ rrRet' = ReturnListError
    /\ rrPc' = "returned"
    /\ UNCHANGED <<rrStore, rrRunID, rrIt, rrJobRun, rrFetched>>
    /\ UNCHANGED exceptResolver

\* case strings.HasSuffix(attrs.Name, "prowjob.json")
RrProwJob ==
    /\ rrPc = "loop"
    /\ rrIt # <<>>
    /\ IsProwJob(Head(rrIt))
    /\ rrJobRun' = Ptr(SetGCSProwJobPath(OrNew(rrJobRun, Head(rrIt).dir), Head(rrIt)))
    /\ rrIt' = Tail(rrIt)
    /\ UNCHANGED <<rrStore, rrRunID, rrPc, rrFetched, rrRet>>
    /\ UNCHANGED exceptResolver

\* case a junit xml file (its name has at least four segments)
RrJunit ==
    /\ rrPc = "loop"
    /\ rrIt # <<>>
    /\ ~IsProwJob(Head(rrIt))
    /\ IsJunit(Head(rrIt))
    /\ rrJobRun' = Ptr(AddGCSJunitPaths(OrNew(rrJobRun, Head(rrIt).dir), Head(rrIt)))
    /\ rrIt' = Tail(rrIt)
    /\ UNCHANGED <<rrStore, rrRunID, rrPc, rrFetched, rrRet>>
    /\ UNCHANGED exceptResolver

\* default: the object is passed over
RrOther ==
    /\ rrPc = "loop"
    /\ rrIt # <<>>
    /\ ~IsProwJob(Head(rrIt))
    /\ ~IsJunit(Head(rrIt))
    /\ rrIt' = Tail(rrIt)
    /\ UNCHANGED <<rrStore, rrRunID, rrJobRun, rrPc, rrFetched, rrRet>>
    /\ UNCHANGED exceptResolver

\* if jobRun == nil { return nil, nil }
RrNoJobRun ==
    /\ rrPc = "listed"
    /\ rrJobRun = Nil
    /\ rrRet' = ReturnNotFound
    /\ rrPc' = "returned"
    /\ UNCHANGED <<rrStore, rrRunID, rrIt, rrJobRun, rrFetched>>
    /\ UNCHANGED exceptResolver

\* if len(jobRun.GetGCSProwJobPath()) == 0 { return nil, nil }
RrNoProwJob ==
    /\ rrPc = "listed"
    /\ rrJobRun # Nil
    /\ ProwJobPathEmpty(rrJobRun[1])
    /\ rrRet' = ReturnNotFound
    /\ rrPc' = "returned"
    /\ UNCHANGED <<rrStore, rrRunID, rrIt, rrJobRun, rrFetched>>
    /\ UNCHANGED exceptResolver

\* jobRun.GetProwJob(ctx) succeeds: return jobRun, nil
RrFetchOk ==
    /\ rrPc = "listed"
    /\ rrJobRun # Nil
    /\ ~ProwJobPathEmpty(rrJobRun[1])
    /\ rrFetched' = "ok"
    /\ rrRet' = [jobRun |-> rrJobRun, err |-> Nil]
    /\ rrPc' = "returned"
    /\ UNCHANGED <<rrStore, rrRunID, rrIt, rrJobRun>>
    /\ UNCHANGED exceptResolver

\* jobRun.GetProwJob(ctx) fails: return nil, fmt.Errorf(...)
RrFetchErr ==
    /\ rrPc = "listed"
    /\ rrJobRun # Nil
    /\ ~ProwJobPathEmpty(rrJobRun[1])
    /\ rrFetched' = "failed"
    /\ rrRet' = FetchFailure
    /\ rrPc' = "returned"
    /\ UNCHANGED <<rrStore, rrRunID, rrIt, rrJobRun>>
    /\ UNCHANGED exceptResolver

RrNext ==
    \/ RrQuery
    \/ RrListDone
    \/ RrListError
    \/ RrProwJob
    \/ RrJunit
    \/ RrOther
    \/ RrNoJobRun
    \/ RrNoProwJob
    \/ RrFetchOk
    \/ RrFetchErr

\* the objects of the queried range
QueriedRange ==
    {o \in rrStore : InRange(o, rrRunID, NextJobRunID(rrRunID))}

\* C11: when the listing of the queried range ran to its end and the range
\* holds no prowjob.json, ReadJobRunFromGCS returns (nil, nil), both when the
\* range holds no prowjob.json and no junit file and when it holds junit
\* files only.
ThmC11_NoDescriptorIsNotFound ==
    (/\ rrPc = "returned"
     /\ rrRet # ReturnListError
     /\ ~\E o \in QueriedRange : IsProwJob(o))
        => rrRet = ReturnNotFound

\* junit files were attached to a jobRun, but there is no prowjob.json
WitC11_JunitButNoDescriptor ==
    /\ rrPc = "returned"
    /\ rrJobRun # Nil
    /\ rrJobRun[1].junitPaths # <<>>
    /\ ~\E o \in QueriedRange : IsProwJob(o)
    /\ rrRet = ReturnNotFound

NothingRecognised ==
    /\ rrPc = "returned"
    /\ rrJobRun = Nil
    /\ QueriedRange # {}
    /\ rrRet = ReturnNotFound

\* the objects a returned JobRun names
Attached(jr) == {jr.prowJobPath[k] : k \in 1..Len(jr.prowJobPath)}
                \cup {jr.junitPaths[k] : k \in 1..Len(jr.junitPaths)}

\* C21: a JobRun returned for run id X has run id X, and its prowjob path and
\* every junit path attached to it lie in the queried range and belong to
\* run X: no object of another run is attached.
CexC21_OnlyObjectsOfTheRun ==
    (rrPc = "returned" /\ rrRet.jobRun # Nil) =>
        /\ rrRet.jobRun[1].jobRunID = rrRunID
        /\ \A o \in Attached(rrRet.jobRun[1]) :
              o \in QueriedRange /\ o.dir = rrRunID

\* what the code keeps: everything attached lies in the queried range, every
\* junit file of the range is attached, and the JobRun is keyed by the
\* directory of the first recognised object of the range
AttachedFromQueriedRange ==
    (rrPc = "returned" /\ rrRet.jobRun # Nil) =>
        LET jr == rrRet.jobRun[1]
            recognised == SelectSeq(RangeObjects(rrStore, rrRunID, NextJobRunID(rrRunID)),
                                    LAMBDA o : IsProwJob(o) \/ IsJunit(o))
        IN  /\ Attached(jr) \subseteq QueriedRange
            /\ {o \in QueriedRange : IsJunit(o)} \subseteq Attached(jr)
            /\ jr.jobRunID = recognised[1].dir

\* run "1" was asked for and the JobRun returned holds an object of run "10"
OtherRunAttached ==
    /\ rrPc = "returned" /\ rrRet.jobRun # Nil
    /\ rrRunID = Dec(<<1>>)
    /\ \E o \in Attached(rrRet.jobRun[1]) : o.dir = Dec(<<1, 0>>)

\* C20: once a prowjob.json was found in the range and the listing ran to its
\* end, GetProwJob is called before the function returns; when it fails the
\* function returns a non-nil error and no JobRun, never (nil, nil); a JobRun
\* is returned only after a successful fetch; and a return out of the listing
\* loop (a listing error) carries a non-nil error and no JobRun.
ThmC20_FetchFailureIsHard ==
    /\ [](rrPc = "returned" =>
            /\ (rrRet.err # Nil => rrRet.jobRun = Nil)
            /\ (rrRet.jobRun # Nil => rrFetched = "ok" /\ rrRet.jobRun = rrJobRun)
            /\ (rrFetched = "failed" => rrRet.err # Nil /\ rrRet.jobRun = Nil)
            /\ ((/\ rrIt = <<>>
                 /\ rrRet.err # ReturnListError.err
                 /\ \E o \in QueriedRange : IsProwJob(o))
                    => rrFetched \in {"ok", "failed"}))
    /\ [][(rrPc = "loop" /\ rrPc' = "returned")
            => (rrRet'.err # Nil /\ rrRet'.jobRun = Nil /\ rrFetched' = "no")]_vars

\* the prowjob.json and a junit file of the run were found, the fetch failed
WitC20_FetchFailed ==
    /\ rrPc = "returned"
    /\ rrJobRun # Nil
    /\ ~ProwJobPathEmpty(rrJobRun[1])
    /\ rrJobRun[1].junitPaths # <<>>
    /\ rrFetched = "failed"
    /\ rrRet.jobRun = Nil
    /\ rrRet.err # Nil

\* a listing error after the prowjob.json was already seen
ListErrorAfterDescriptor ==
    /\ rrPc = "returned"
    /\ rrJobRun # Nil
    /\ ~ProwJobPathEmpty(rrJobRun[1])
    /\ rrFetched = "no"
    /\ rrRet = ReturnListError

\* a step in which it.Next() hands the loop body an object
WkVisit == WkContinue \/ WkFastForward \/ WkPanic \/ WkFound

OutOfBand(o) == o.age > TooOldHours \/ o.age < TooYoungHours

\* C17 as stated: whenever the loop body is handed an object other than
\* latest-build.txt that is too old or too young (of a run whose id is a
\* number), the start offset becomes NextJobRunID of that run, the listing is
\* issued again from there, and the new listing holds no object of that run.
CexC17_OutOfBandFastForwards ==
    [][(/\ WkVisit
        /\ OutOfBand(Head(it))
        /\ Head(it).file # "latest-build.txt"
        /\ ~NextJobRunIDPanics(ThirdSegment(Head(it))))
          => /\ queryStartOffset' = NextJobRunID(ThirdSegment(Head(it)))
             /\ it' = Objects(bucket, queryStartOffset')
             /\ \A k \in 1..Len(it') : it'[k].dir # Head(it).dir]_vars

\* What the code does with a too old or too young object: only a name ending
\* in .json, or build-log.txt when too young, moves the cursor; any other is
\* passed over and the next object of the same listing is read.
OutOfBandMovesCursorOnlyOnJsonOrYoungLog ==
    [][(WkVisit /\ OutOfBand(Head(it)) /\ Head(it).file # "latest-build.txt")
          => IF \/ HasSuffixJson(Head(it))
                \/ (Head(it).age < TooYoungHours /\ Head(it).file = "build-log.txt")
             THEN \/ pExit' = "panic"
                  \/ /\ queryStartOffset' = NextJobRunID(ThirdSegment(Head(it)))
                     /\ it' = Objects(bucket, queryStartOffset')
             ELSE queryStartOffset' = queryStartOffset /\ it' = Tail(it)]_vars

\* a too old build-log.txt was passed over and the finished.json of the same
\* run is the next object read
TooOldLogPassedOver ==
    /\ pPc = "loop"
    /\ it # <<>>
    /\ Head(it).file = "finished.json"
    /\ \E o \in bucket : /\ o.dir = Head(it).dir
                         /\ o.file = "build-log.txt"
                         /\ o.age > TooOldHours
    /\ queryStartOffset = HardCodedStart
    /\ Head(it).dir = MagInc(HardCodedStart)

\* the parts of C18 that the code keeps: an id is sent only for a prowjob.json
\* in the candidate band; the send is followed by the cursor moving to
\* NextJobRunID of that id and a new listing; latest-build.txt in any band and
\* every other candidate-band object are passed over with nothing sent and the
\* cursor left alone
Ignored(o) ==
    \/ o.file = "latest-build.txt"
    \/ (InCandidateBand(o) /\ o.file # "prowjob.json")

EmitsOnlyCandidateDescriptors ==
    /\ [](SendsOnlyCandidates)
    /\ [][(pPc = "send" /\ pPc' = "loop")
            => /\ pSent' = Append(pSent, jobRunId)
               /\ queryStartOffset' = NextJobRunID(jobRunId)
               /\ it' = Objects(bucket, queryStartOffset')]_vars
    /\ [][(WkVisit /\ Ignored(Head(it)))
            => /\ it' = Tail(it)
               /\ UNCHANGED <<queryStartOffset, pSent, jobRunProcessingCh, pPc>>]_vars

\* C18 as stated: the above, and the listing issued after id X was sent holds
\* no object of run X any more.
CexC18_EmittedRunNotVisitedAgain ==
    /\ EmitsOnlyCandidateDescriptors
    /\ [][(pPc = "send" /\ pPc' = "loop")
            => \A k \in 1..Len(it') : it'[k].dir # jobRunId]_vars

\* a cursor advance: the listing is issued again from NextJobRunID of the run
\* just skipped or just sent
CursorAdvance == WkFastForward \/ (WkSend /\ pPc' = "loop")

\* C32 as stated: each cursor advance moves the start offset strictly forward
\* in the byte order of object names, whatever the numbers of digits of the
\* run ids, so that no object is listed again and the walk ends.
CexC32_CursorMovesForward ==
    [][CursorAdvance => StrLess(queryStartOffset, queryStartOffset')]_vars

\* the cursor was moved to or before the run it was meant to pass: the listing
\* issued from the new offset starts with an object of that run again
CursorBehindItsRun ==
    /\ pPc = "loop"
    /\ Len(pSent) >= 1
    /\ queryStartOffset = NextJobRunID(pSent[Len(pSent)])
    /\ StrLess(queryStartOffset, pSent[Len(pSent)])
    /\ it # <<>>
    /\ Head(it).dir = pSent[Len(pSent)]

\* the same run id was sent twice
SentTwice ==
    Len(pSent) >= 2 /\ pSent[1] = ShortRunId /\ pSent[2] = ShortRunId

\* the cancelled goroutine has a step it can take on its own: the ctx.Err()
\* check at the head of the loop, a send into a buffer with room, the close
ProducerCanStep ==
    \/ pPc = "loop" /\ pCancelled
    \/ pPc = "send" /\ Len(jobRunProcessingCh) < JobRunChCap
    \/ pPc = "return"

\* C19 as stated: once the context is cancelled the producer goroutine ends
\* with the output channel closed, whatever the consumer does. After the
\* cancellation the goroutine has at most a send, the ctx.Err() check, the
\* return and the deferred close before it, so it ends exactly when it is
\* never left without a step it can take on its own.
CexC19_CancelEndsProducer ==
    (pCancelled /\ pPc # "done") => ProducerCanStep

\* the send of line 158 is no select on ctx.Done(): with the buffer full and
\* the consumer gone the goroutine stays in it
BlockedInSend ==
    /\ pPc = "send"
    /\ Len(jobRunProcessingCh) = JobRunChCap
    /\ pCancelled

\* What the code does: after cancellation the goroutine can go on to its end
\* unless it is held in the send on a full channel.
CancelEndsProducerUnlessBlocked ==
    (pCancelled /\ pPc # "done" /\ ~BlockedInSend) => ProducerCanStep

\* C15 as stated: the scan begins at logs/<jobName>/<startingID>: no run id
\* ordered before startingID is ever sent, and when the listing is exhausted a
\* run at or after startingID that holds nothing but a candidate prowjob.json
\* has been sent.
CexC15_ScanStartsAtStartingID ==
    /\ \A k \in 1..Len(pSent) : ~StrLess(pSent[k], startingID)
    /\ (pPc = "done" /\ pExit = "exhausted") =>
          \A o \in bucket :
              (/\ o.file = "prowjob.json"
               /\ InCandidateBand(o)
               /\ StrLeq(startingID, NameKey(o))
               /\ \A x \in bucket : x.dir = o.dir => x = o)
                  => \E k \in 1..Len(pSent) : pSent[k] = o.dir

\* What the code does: whatever startingID is, the first listing starts at the
\* fixed id 1475614363518767104.
ScanStartsAtHardCodedStart ==
    jobRunId = <<>> =>
        /\ queryStartOffset = HardCodedStart
        /\ \A k \in 1..Len(it) : StrLeq(HardCodedStart, NameKey(it[k]))

\* a run below the startingID the caller passed was sent
SentBelowStartingID ==
    /\ startingID = MagInc(HardCodedStart)
    /\ pSent # <<>>
    /\ pSent[1] = HardCodedStart

\* C16 where NextJobRunID is used. The walker: once the run id taken from an
\* object's name is non-numeric, the goroutine never reads another object; it
\* ends by panic, with nothing on errorCh.
WalkerPanicsOnNonNumeric ==
    NonNumeric(jobRunId) =>
        /\ pPc \in {"send", "return", "done"}
        /\ pPc # "send" => pExit = "panic"
        /\ errorCh = <<>>

WalkerPanicked ==
    pPc = "done" /\ pExit = "panic" /\ NonNumeric(jobRunId)

\* The resolver: a non-numeric jobRunID panics while the query is built, before
\* anything is listed or returned.
ResolverPanicsOnNonNumeric ==
    (rrPc # "query" /\ NonNumeric(rrRunID)) =>
        (rrPc = "panicked" /\ rrRet = <<>> /\ rrIt = <<>> /\ rrJobRun = Nil)

ResolverPanicked ==
    rrPc = "panicked" /\ rrRunID = <<ChX>>

\* ---------------------------------------------------------------------------
\* JobRunTestCaseAnalyzerOptions.Run and the command that calls it
\* ---------------------------------------------------------------------------
\* Instants and durations are counted in units of 20 minutes.

\* 1 * time.Hour
Hour == 3
\* 20 * time.Minute
TwentyMinutes == 1

\* ctx, cancel := context.WithTimeout(ctx, o.timeout)
WithTimeout(now, d) == now + d

\* readyAt := o.jobRunStartEstimate.Add(1 * time.Hour)
ReadyAtPlusMargin(start) == start + Hour + TwentyMinutes
ReadyAt(start) == start + Hour

\* timeToStopWaiting := o.jobRunStartEstimate.Add(o.timeout - 20*time.Minute)
TimeToStopWaiting(start, d) == start + (d - TwentyMinutes)

\* err := jobrunaggregatorlib.WaitUntilTime(ctx, readyAt);
\* if err != nil { return err }
GoOnAfterWait(err) == "discover"
AfterWait(err) == IF err # "nil" THEN "returned" ELSE "discover"

\* WaitUntilTime(ctx, readyAt) has nothing to wait for
AlreadyReady(now, at) == now >= at

\* the pure result of one checker: CheckTestCase over the junit map
CheckTestCase(id, required, junitMap) ==
    LET passed == {jobRun \in DOMAIN junitMap :
                      ForestStatus(id, junitMap[jobRun]) = testPassed}
    IN  updateTestCountsInSuite(
            SuiteChain("minimum-required-passes-checker", id.testSuites,
                       SyntheticTestCase(id, required, Cardinality(passed))))

\* allJobRuns := append(finishedJobRuns, unfinishedJobRuns...)
FinishedJobRunsOnly(finished, unfinished) == finished
AllJobRuns(finished, unfinished) == finished \o unfinished

\* the loop that fills jobRunJunitMap: a run whose GetCombinedJUnitTestSuites
\* fails is left out
JobRunJunitMap(allJobRuns) ==
    LET kept == {k \in 1..Len(allJobRuns) : allJobRuns[k].junit # Nil}
    IN  [jobRun \in {allJobRuns[k].id : k \in kept} |->
            allJobRuns[CHOOSE k \in kept : allJobRuns[k].id = jobRun].junit[1]]

\* runTestCaseCheckers
runTestCaseCheckers(checkers, finished, unfinished) ==
    LET junitMap == JobRunJunitMap(AllJobRuns(finished, unfinished))
        children == [k \in 1..Len(checkers) |->
                        CheckTestCase(checkers[k].id, checkers[k].required, junitMap)]
    IN  [Name |-> "payload-cross-jobs",
         TestCases |-> <<>>,
         Children |-> children,
         NumTests |-> SumOver(children, "NumTests"),
         NumFailed |-> SumOver(children, "NumFailed")]

\* if testSuite.NumFailed > 0 { return ErrorTestCheckerFailed }; return nil
AlwaysNil(testSuite) == "nil"
RunResult(testSuite) ==
    IF testSuite.NumFailed > 0 THEN "ErrorTestCheckerFailed" ELSE "nil"

\* the switch of RunE over the error of o.Run
LogLevel(err) ==
    IF err = "nil" THEN "silent"
    ELSE IF err \in {"ErrorNoRelatedJobs", "ErrorTestCheckerFailed"}
    THEN "warning"
    ELSE "fatal"

\* --- commands tried ---
MaxClock == 5
MaxTimeout == 3
MaxCheckers == 2
MaxFound == 2

TheChecker(required) ==
    [id |-> [testSuites |-> <<"install", "network">>, testName |-> "dns-check"],
     required |-> required]

CheckerLists ==
    UNION { [1..n -> {TheChecker(r) : r \in 0..2}] : n \in 0..MaxCheckers }

\* what discovery can hand back: every run finished, unfinished or not
\* related, and its junit parsed to a forest or (Nil) not readable
FoundRuns(place, junit, which) ==
    LET RECURSIVE Upto(_)
        Upto(n) == IF n = 0 THEN <<>>
                   ELSE IF place[n] = which
                        THEN Append(Upto(n - 1), [id |-> n, junit |-> junit[n]])
                        ELSE Upto(n - 1)
    IN  Upto(MaxFound)

RunIdle ==
    /\ oPc = "idle" /\ oNow = 0 /\ jobRunStartEstimate = 0 /\ timeout = 0
    /\ oDeadline = Nil /\ testCaseCheckers = <<>> /\ oSuspended = FALSE
    /\ oDiscoveryCalled = FALSE /\ oJobRuns = Nil /\ jobRunJunitMap = Nil
    /\ oTopSuite = Nil
    /\ oWritten = FALSE /\ oRet = "none" /\ cmdLog = "none"

RunStart ==
    /\ oPc = "mkdir"
    /\ oNow \in 0..MaxClock
    /\ jobRunStartEstimate = 1
    /\ timeout \in 1..MaxTimeout
    /\ oDeadline = Nil
    /\ testCaseCheckers \in CheckerLists
    /\ oSuspended = FALSE /\ oDiscoveryCalled = FALSE
    /\ oJobRuns = Nil /\ jobRunJunitMap = Nil /\ oTopSuite = Nil
    /\ oWritten = FALSE /\ oRet = "none" /\ cmdLog = "none"

\* context.WithTimeout, then os.MkdirAll succeeds
RunMkdirAll ==
    /\ oPc = "mkdir"
    /\ oDeadline' = Ptr(WithTimeout(oNow, timeout))
    /\ oPc' = "wait"
    /\ UNCHANGED <<oNow, jobRunStartEstimate, timeout, testCaseCheckers,
                   oSuspended, oDiscoveryCalled, oJobRuns, jobRunJunitMap,
                   oTopSuite, oWritten, oRet, cmdLog>>
    /\ UNCHANGED exceptRun

\* context.WithTimeout, then os.MkdirAll fails: return the wrapped error
RunMkdirAllFailed ==
    /\ oPc = "mkdir"
    /\ oDeadline' = Ptr(WithTimeout(oNow, timeout))
    /\ oRet' = "errMkdirAll"
    /\ oPc' = "returned"
    /\ UNCHANGED <<oNow, jobRunStartEstimate, timeout, testCaseCheckers,
                   oSuspended, oDiscoveryCalled, oJobRuns, jobRunJunitMap,
                   oTopSuite, oWritten, cmdLog>>
    /\ UNCHANGED exceptRun

\* WaitUntilTime called when the readiness instant has been reached
RunWaitSkipped ==
    /\ oPc = "wait"
    /\ AlreadyReady(oNow, ReadyAt(jobRunStartEstimate))
    /\ oPc' = AfterWait("nil")
    /\ UNCHANGED <<oNow, jobRunStartEstimate, timeout, oDeadline,
                   testCaseCheckers, oSuspended, oDiscoveryCalled, oJobRuns,
                   jobRunJunitMap, oTopSuite, oWritten, oRet, cmdLog>>
    /\ UNCHANGED exceptRun

\* WaitUntilTime called before the readiness instant: the caller is suspended
RunWaitSuspended ==
    /\ oPc = "wait"
    /\ ~AlreadyReady(oNow, ReadyAt(jobRunStartEstimate))
    /\ oSuspended' = TRUE
    /\ oPc' = "waiting"
    /\ UNCHANGED <<oNow, jobRunStartEstimate, timeout, oDeadline,
                   testCaseCheckers, oDiscoveryCalled, oJobRuns, jobRunJunitMap,
                   oTopSuite, oWritten, oRet, cmdLog>>
    /\ UNCHANGED exceptRun

\* the suspension ends because the readiness instant came
RunWaitTimerFired ==
    /\ oPc = "waiting"
    /\ ReadyAt(jobRunStartEstimate) <= oDeadline[1]
    /\ oNow' = ReadyAt(jobRunStartEstimate)
    /\ oPc' = AfterWait("nil")
    /\ UNCHANGED <<jobRunStartEstimate, timeout, oDeadline, testCaseCheckers,
                   oSuspended, oDiscoveryCalled, oJobRuns, jobRunJunitMap,
                   oTopSuite, oWritten, oRet, cmdLog>>
    /\ UNCHANGED exceptRun

\* the suspension ends because the context's deadline came: if err != nil
\* { return err }
RunWaitCtxDone ==
    /\ oPc = "waiting"
    /\ oDeadline[1] <= ReadyAt(jobRunStartEstimate)
    /\ oNow' = oDeadline[1]
    /\ oPc' = AfterWait("errDeadlineExceeded")
    /\ oRet' = IF oPc' = "returned" THEN "errDeadlineExceeded" ELSE oRet
    /\ UNCHANGED <<jobRunStartEstimate, timeout, oDeadline, testCaseCheckers,
                   oSuspended, oDiscoveryCalled, oJobRuns, jobRunJunitMap,
                   oTopSuite, oWritten, cmdLog>>
    /\ UNCHANGED exceptRun

\* WaitAndGetAllFinishedJobRuns hands back the finished and unfinished runs
RunDiscovered ==
    /\ oPc = "discover"
    /\ \E place \in [1..MaxFound -> {"finished", "unfinished", "unrelated"}],
          junit \in [1..MaxFound -> {Ptr(<<PassingSuite>>), Ptr(<<FailingSuite>>), Nil}] :
          oJobRuns' = Ptr([finished |-> FoundRuns(place, junit, "finished"),
                           unfinished |-> FoundRuns(place, junit, "unfinished")])
    /\ oDiscoveryCalled' = TRUE
    /\ oPc' = "check"
    /\ UNCHANGED <<oNow, jobRunStartEstimate, timeout, oDeadline,
                   testCaseCheckers, oSuspended, jobRunJunitMap, oTopSuite,
                   oWritten, oRet, cmdLog>>
    /\ UNCHANGED exceptRun

\* WaitAndGetAllFinishedJobRuns fails: if err != nil { return err }
RunDiscoveryFailed ==
    /\ oPc = "discover"
    /\ \E err \in {"errDiscovery", "ErrorNoRelatedJobs"} : oRet' = err
    /\ oDiscoveryCalled' = TRUE
    /\ oPc' = "returned"
    /\ UNCHANGED <<oNow, jobRunStartEstimate, timeout, oDeadline,
                   testCaseCheckers, oSuspended, oJobRuns, jobRunJunitMap,
                   oTopSuite, oWritten, cmdLog>>
    /\ UNCHANGED exceptRun

\* testSuite := o.runTestCaseCheckers(ctx, finishedJobRuns, unfinishedJobRuns)
RunCheckers ==
    /\ oPc = "check"
    /\ jobRunJunitMap' = Ptr(JobRunJunitMap(AllJobRuns(oJobRuns[1].finished,
                                                       oJobRuns[1].unfinished)))
    /\ oTopSuite' = Ptr(runTestCaseCheckers(testCaseCheckers,
                            oJobRuns[1].finished, oJobRuns[1].unfinished))
    /\ oPc' = "emit"
    /\ UNCHANGED <<oNow, jobRunStartEstimate, timeout, oDeadline,
                   testCaseCheckers, oSuspended, oDiscoveryCalled, oJobRuns,
                   oWritten, oRet, cmdLog>>
    /\ UNCHANGED exceptRun

\* xml.Marshal or ioutil.WriteFile fails: return err
RunEmitErrorIgnored ==
    /\ oPc = "emit"
    /\ oPc' = "decide"
    /\ UNCHANGED <<oNow, jobRunStartEstimate, timeout, oDeadline,
                   testCaseCheckers, oSuspended, oDiscoveryCalled, oJobRuns,
                   jobRunJunitMap, oTopSuite, oWritten, oRet, cmdLog>>
    /\ UNCHANGED exceptRun
RunEmitFailed ==
    /\ oPc = "emit"
    /\ \E err \in {"errMarshal", "errWriteFile"} : oRet' = err
    /\ oPc' = "returned"
    /\ UNCHANGED <<oNow, jobRunStartEstimate, timeout, oDeadline,
                   testCaseCheckers, oSuspended, oDiscoveryCalled, oJobRuns,
                   jobRunJunitMap, oTopSuite, oWritten, cmdLog>>
    /\ UNCHANGED exceptRun

\* xml.Marshal and ioutil.WriteFile succeed
RunEmitted ==
    /\ oPc = "emit"
    /\ oWritten' = TRUE
    /\ oPc' = "decide"
    /\ UNCHANGED <<oNow, jobRunStartEstimate, timeout, oDeadline,
                   testCaseCheckers, oSuspended, oDiscoveryCalled, oJobRuns,
                   jobRunJunitMap, oTopSuite, oRet, cmdLog>>
    /\ UNCHANGED exceptRun

\* the last statements of Run
RunDecide ==
    /\ oPc = "decide"
    /\ oRet' = RunResult(oTopSuite[1])
    /\ oPc' = "returned"
    /\ UNCHANGED <<oNow, jobRunStartEstimate, timeout, oDeadline,
                   testCaseCheckers, oSuspended, oDiscoveryCalled, oJobRuns,
                   jobRunJunitMap, oTopSuite, oWritten, cmdLog>>
    /\ UNCHANGED exceptRun

\* RunE after o.Run returned
RunE ==
    /\ oPc = "returned"
    /\ cmdLog' = LogLevel(oRet)
    /\ oPc' = "exited"
    /\ UNCHANGED <<oNow, jobRunStartEstimate, timeout, oDeadline,
                   testCaseCheckers, oSuspended, oDiscoveryCalled, oJobRuns,
                   jobRunJunitMap, oTopSuite, oWritten, oRet>>
    /\ UNCHANGED exceptRun

RunNext ==
    \/ RunMkdirAll \/ RunMkdirAllFailed
    \/ RunWaitSkipped \/ RunWaitSuspended \/ RunWaitTimerFired \/ RunWaitCtxDone
    \/ RunDiscovered \/ RunDiscoveryFailed
    \/ RunCheckers \/ RunEmitFailed \/ RunEmitted \/ RunDecide
    \/ RunE


\* C14: when Run calls the readiness wait at an instant that equals or
\* exceeds the start-time estimate plus one hour, the wait returns at once:
\* Run goes on to discovery at the same instant, was never suspended and has
\* no error.
ThmC14_ReadyWaitReturnsAtOnce ==
    [][(oPc = "wait" /\ oNow >= jobRunStartEstimate + Hour)
        => /\ oPc' = "discover"
           /\ oNow' = oNow
           /\ ~oSuspended'
           /\ oRet' = "none"]_vars

\* the wait was skipped at exactly the readiness instant
WitC14_SkippedAtReadyInstant ==
    /\ oPc = "discover"
    /\ ~oSuspended
    /\ oNow = jobRunStartEstimate + Hour
    /\ oRet = "none"

\* the wait was skipped after the readiness instant
SkippedAfterReadyInstant ==
    oPc = "discover" /\ ~oSuspended /\ oNow > jobRunStartEstimate + Hour

\* the wait suspended Run and the timer ended it
WaitedUntilReady ==
    oPc = "discover" /\ oSuspended /\ oNow = jobRunStartEstimate + Hour

\* the wait suspended Run and the deadline ended it
WaitCutShort ==
    oPc = "returned" /\ oSuspended /\ oRet = "errDeadlineExceeded"

\* the failing test cases of a tree, counted from its test cases
RECURSIVE FailedCases(_)
FailedCases(suite) ==
    LET RECURSIVE Below(_)
        Below(children) ==
            IF children = <<>> THEN 0
            ELSE FailedCases(Head(children)) + Below(Tail(children))
    IN  Cardinality({k \in 1..Len(suite.TestCases) :
                        suite.TestCases[k].FailureOutput # Nil})
        + Below(suite.Children)

\* every step of Run before its last statements succeeded
NoOperationalError == oWritten /\ oTopSuite # Nil

ThreeValuedRun ==
    oPc \in {"returned", "exited"} =>
        /\ oRet = "ErrorTestCheckerFailed"
              <=> (NoOperationalError /\ FailedCases(oTopSuite[1]) > 0)
        /\ oRet = "nil"
              <=> (NoOperationalError /\ FailedCases(oTopSuite[1]) = 0)

\* C12 as stated: Run returns gate-not-met exactly when no operational error
\* occurred and the tree has failures, nil exactly when none occurred and it
\* has none; the command logs gate-not-met as a warning and every other
\* error as fatal.
CexC12_OnlyGateNotMetIsWarning ==
    /\ ThreeValuedRun
    /\ oPc = "exited" =>
          /\ oRet = "ErrorTestCheckerFailed" => cmdLog = "warning"
          /\ oRet \notin {"nil", "ErrorTestCheckerFailed"} => cmdLog = "fatal"

\* C12 amended: the same three-valued result of Run; the command logs
\* gate-not-met and no-related-jobs as warnings, every other error as fatal,
\* and nothing for nil.
ThmC12_ThreeValuedOutcome ==
    /\ ThreeValuedRun
    /\ oPc = "exited" =>
          /\ oRet \in {"ErrorTestCheckerFailed", "ErrorNoRelatedJobs"}
                => cmdLog = "warning"
          /\ oRet \notin {"nil", "ErrorTestCheckerFailed", "ErrorNoRelatedJobs"}
                => cmdLog = "fatal"
          /\ oRet = "nil" => cmdLog = "silent"

\* a run below its threshold: the report is written, Run returns
\* gate-not-met and the command warns
WitC12_GateNotMetWarned ==
    /\ oPc = "exited"
    /\ oWritten
    /\ oTopSuite # Nil /\ oTopSuite[1].NumFailed > 0
    /\ oRet = "ErrorTestCheckerFailed"
    /\ cmdLog = "warning"

RunSucceeded ==
    oPc = "exited" /\ oWritten /\ oRet = "nil" /\ cmdLog = "silent"
       /\ oTopSuite[1].NumTests > 0

NoRelatedJobsWarned ==
    oPc = "exited" /\ oRet = "ErrorNoRelatedJobs" /\ cmdLog = "warning"

EmitFailureFatal ==
    oPc = "exited" /\ oRet = "errWriteFile" /\ cmdLog = "fatal"
       /\ oTopSuite[1].NumFailed > 0

\* C28: discovery is started only at or after the readiness instant, after
\* the wait returned without error; when the wait ends with an error Run
\* returns that error, and then discovery was never called, no checker was
\* run and nothing was written.
ThmC28_NoDiscoveryBeforeReady ==
    /\ []((oPc = "discover" \/ oDiscoveryCalled) =>
              (oNow >= jobRunStartEstimate + Hour /\ oRet # "errDeadlineExceeded"))
    /\ [](oRet = "errDeadlineExceeded" =>
              /\ oSuspended /\ oNow = oDeadline[1]
              /\ ~oDiscoveryCalled /\ oJobRuns = Nil
              /\ jobRunJunitMap = Nil /\ oTopSuite = Nil /\ ~oWritten)
    /\ [][(oPc = "waiting" /\ oNow' < jobRunStartEstimate + Hour)
            => (oPc' = "returned" /\ oRet' = "errDeadlineExceeded")]_vars
    /\ [][(oPc \in {"wait", "waiting"} /\ oPc' = "returned")
            => oRet' = "errDeadlineExceeded"]_vars

\* the deadline came during the wait, before the readiness instant: the
\* command ends with the wait's error and discovery was not called
WitC28_DeadlineDuringWait ==
    /\ oPc = "exited"
    /\ oSuspended
    /\ oNow < jobRunStartEstimate + Hour
    /\ oRet = "errDeadlineExceeded"
    /\ ~oDiscoveryCalled
    /\ cmdLog = "fatal"

\* the runs discovery handed back, finished first
DiscoveredRuns ==
    {oJobRuns[1].finished[k] : k \in 1..Len(oJobRuns[1].finished)}
    \cup {oJobRuns[1].unfinished[k] : k \in 1..Len(oJobRuns[1].unfinished)}

\* the discovered runs whose only suite holds the passing test case
PassingRuns == {r \in DiscoveredRuns : r.junit = Ptr(<<PassingSuite>>)}

\* the checkers whose minimum the passing runs do not reach
FailingCheckers ==
    {k \in 1..Len(testCaseCheckers) :
        Cardinality(PassingRuns) < testCaseCheckers[k].required}

ChildPerChecker ==
    /\ Len(oTopSuite[1].Children) = Len(testCaseCheckers)
    /\ \A k \in 1..Len(testCaseCheckers) :
          LET child == oTopSuite[1].Children[k]
          IN  /\ child.Name = "minimum-required-passes-checker"
              /\ child.NumTests = 1
              /\ child.NumFailed = (IF k \in FailingCheckers THEN 1 ELSE 0)
    /\ oTopSuite[1].Name = "payload-cross-jobs"
    /\ oTopSuite[1].NumTests = Len(testCaseCheckers)
    /\ oTopSuite[1].NumFailed = Cardinality(FailingCheckers)

\* C29 as stated: the map every checker is run against holds every finished
\* and every unfinished run that discovery returned; there is one child suite
\* per checker and the top suite's counts are the sums of the children's.
CexC29_EveryDiscoveredRunChecked ==
    oTopSuite # Nil =>
        /\ DOMAIN jobRunJunitMap[1] = {r.id : r \in DiscoveredRuns}
        /\ ChildPerChecker

\* C29 amended: the map holds every finished and every unfinished run that
\* discovery returned and whose junit results could be read, with its
\* forest, and no other; there is one child suite per checker, in the
\* checkers' order, each judged on that same map, and the top suite's
\* NumTests and NumFailed are the sums of the children's.
ThmC29_EveryReadableRunChecked ==
    oTopSuite # Nil =>
        /\ DOMAIN jobRunJunitMap[1] = {r.id : r \in {q \in DiscoveredRuns : q.junit # Nil}}
        /\ \A r \in DiscoveredRuns :
              r.junit # Nil => jobRunJunitMap[1][r.id] = r.junit[1]
        /\ ChildPerChecker

\* a finished and an unfinished run both pass; of two checkers the one that
\* asks for two passes is satisfied only because the unfinished run counts
WitC29_UnfinishedRunCounts ==
    /\ oTopSuite # Nil
    /\ Len(oJobRuns[1].finished) = 1 /\ Len(oJobRuns[1].unfinished) = 1
    /\ Cardinality(PassingRuns) = 2
    /\ Len(testCaseCheckers) = 2
    /\ testCaseCheckers[1].required = 2
    /\ oTopSuite[1].NumTests = 2
    /\ oTopSuite[1].NumFailed = 0

\* a run whose junit could not be read is left out of the map
UnreadableRunLeftOut ==
    /\ oTopSuite # Nil
    /\ \E r \in DiscoveredRuns : r.junit = Nil /\ r.id \notin DOMAIN jobRunJunitMap[1]

SomeCheckerFails ==
    /\ oTopSuite # Nil
    /\ Len(testCaseCheckers) = 2
    /\ Cardinality(FailingCheckers) = 1

\* C30: Run returns gate-not-met or nil only with the report already
\* written, by a step taken after the write; a step that leaves the
\* serialising and writing with an error returns that error with nothing
\* written, also when the tree has failures.
ThmC30_ReportBeforeVerdict ==
    /\ [](oRet \in {"ErrorTestCheckerFailed", "nil"} => oWritten)
    /\ [](oRet \in {"errMarshal", "errWriteFile"} => ~oWritten)
    /\ [][(oRet = "none" /\ oRet' \in {"ErrorTestCheckerFailed", "nil"}) => oWritten]_vars
    /\ [][(oPc = "emit" /\ ~oWritten')
            => (oPc' = "returned" /\ oRet' \in {"errMarshal", "errWriteFile"})]_vars

\* the tree has a failure but the document could not be serialised: Run
\* returns the serialising error, not gate-not-met
WitC30_MarshalErrorNotGate ==
    /\ oPc = "returned"
    /\ oRet = "errMarshal"
    /\ oTopSuite[1].NumFailed > 0
    /\ ~oWritten

\* the report is written and the verdict not yet decided
WrittenBeforeDecided ==
    oPc = "decide" /\ oWritten /\ oRet = "none" /\ oTopSuite[1].NumFailed > 0

----------------------------------------------------------------------------
(* The PR flow: GetJobs over the explicit job-name-to-prefix list and the  *)
(* locators GetRelatedJobRuns builds for the jobs it returns.              *)

MaxPrefixes == 2
PrJobNames == {"A", "B", "C"}
GCSPrefixes == {"logs/p1", "logs/p2"}

\* --explicit-gcs-prefixes as jobGCSPrefixSlice.Set leaves it: one
\* {jobName, gcsPrefix} per pair; every job is named once
JobGCSPrefixLists ==
    { l \in UNION { [1..n -> [jobName : PrJobNames, gcsPrefix : GCSPrefixes]] :
                        n \in 1..MaxPrefixes } :
        \A i \in DOMAIN l, j \in DOMAIN l : l[i].jobName = l[j].jobName => i = j }

\* the rows of the jobs table in the order ListAllJobs returns them, one row
\* per job name
ListAllJobsResults ==
    { l \in UNION { [1..n -> [JobName : PrJobNames]] :
                        n \in 0..Cardinality(PrJobNames) } :
        \A i \in DOMAIN l, j \in DOMAIN l : l[i].JobName = l[j].JobName => i = j }

filterJobsByNames(jobNames, all) ==
    SelectSeq(all, LAMBDA curr : curr.JobName \in jobNames)

\* GetJobs with a non-empty jobGCSPrefixes
GetJobs(prefixes, all) ==
    filterJobsByNames({prefixes[i].jobName : i \in DOMAIN prefixes}, all)

\* NewPayloadAnalysisJobLocatorForPR(job.JobName, ..., (*o.jobGCSPrefixes)[i].gcsPrefix)
LocatorForPR(js, prefixes, i) ==
    [jobName |-> js[i].JobName, gcsPrefix |-> prefixes[i].gcsPrefix]

PrIdle ==
    /\ prPc = "idle"
    /\ jobGCSPrefixes = <<>>
    /\ allJobs = <<>>
    /\ prJobs = <<>>
    /\ prI = 1
    /\ jobRunLocators = <<>>

PrStart ==
    /\ prPc = "getJobs"
    /\ jobGCSPrefixes \in JobGCSPrefixLists
    /\ allJobs \in ListAllJobsResults
    /\ prJobs = <<>>
    /\ prI = 1
    /\ jobRunLocators = <<>>

\* jobs, err := o.jobGetter.GetJobs(ctx)
PrGetJobs ==
    /\ prPc = "getJobs"
    /\ prJobs' = GetJobs(jobGCSPrefixes, allJobs)
    /\ prPc' = "launch"
    /\ UNCHANGED <<jobGCSPrefixes, allJobs, prI, jobRunLocators>>
    /\ UNCHANGED exceptPairing

\* ListAllJobs fails: GetJobs and GetRelatedJobRuns return the error
PrGetJobsFailed ==
    /\ prPc = "getJobs"
    /\ prPc' = "errGetJobs"
    /\ UNCHANGED <<jobGCSPrefixes, allJobs, prJobs, prI, jobRunLocators>>
    /\ UNCHANGED exceptPairing

\* one iteration of 'for i := range jobs': the locator of jobs[i] is built
\* with the prefix of the i-th pair (an index past the list panics)
PrLaunch ==
    /\ prPc = "launch"
    /\ prI <= Len(prJobs)
    /\ IF prI <= Len(jobGCSPrefixes)
       THEN /\ jobRunLocators' =
                  Append(jobRunLocators, LocatorForPR(prJobs, jobGCSPrefixes, prI))
            /\ prI' = prI + 1
            /\ prPc' = prPc
       ELSE /\ prPc' = "panic"
            /\ UNCHANGED <<prI, jobRunLocators>>
    /\ UNCHANGED <<jobGCSPrefixes, allJobs, prJobs>>
    /\ UNCHANGED exceptPairing

\* the loop ends
PrLaunched ==
    /\ prPc = "launch"
    /\ prI > Len(prJobs)
    /\ prPc' = "launched"
    /\ UNCHANGED <<jobGCSPrefixes, allJobs, prJobs, prI, jobRunLocators>>
    /\ UNCHANGED exceptPairing

PrNext ==
    \/ PrGetJobs
    \/ PrGetJobsFailed
    \/ PrLaunch
    \/ PrLaunched

\* the prefix the list pairs with a job name
PairedWith(prefixes, name, prefix) ==
    \E i \in DOMAIN prefixes :
        prefixes[i].jobName = name /\ prefixes[i].gcsPrefix = prefix

\* C34 as stated: every locator is built with the prefix that the list pairs
\* with its job's name, whatever the order and number of the jobs GetJobs
\* returns.
CexC34_LocatorGetsPrefixOfItsJob ==
    \A k \in 1..Len(jobRunLocators) :
        PairedWith(jobGCSPrefixes, jobRunLocators[k].jobName,
                   jobRunLocators[k].gcsPrefix)

\* what the code does: one locator per job GetJobs returned, in that order,
\* the k-th with the prefix of the k-th pair; the prefix is the job's own
\* whenever the jobs come in the order of the list with none missing before
\* them
PairedByPosition ==
    /\ Len(jobRunLocators) = prI - 1
    /\ \A k \in 1..Len(jobRunLocators) :
          /\ jobRunLocators[k].jobName = prJobs[k].JobName
          /\ jobRunLocators[k].gcsPrefix = jobGCSPrefixes[k].gcsPrefix
          /\ prJobs[k].JobName = jobGCSPrefixes[k].jobName =>
                PairedWith(jobGCSPrefixes, jobRunLocators[k].jobName,
                           jobRunLocators[k].gcsPrefix)
    /\ prPc # "panic"
    /\ prPc = "launched" => Len(jobRunLocators) = Len(prJobs)

\* ListAllJobs returned B before A, the list has A before B: the locator of
\* B has A's prefix
SwappedPrefixes ==
    /\ prPc = "launched"
    /\ Len(jobRunLocators) = 2
    /\ jobGCSPrefixes = <<[jobName |-> "A", gcsPrefix |-> "logs/p1"],
                          [jobName |-> "B", gcsPrefix |-> "logs/p2"]>>
    /\ jobRunLocators = <<[jobName |-> "B", gcsPrefix |-> "logs/p1"],
                          [jobName |-> "A", gcsPrefix |-> "logs/p2"]>>

\* the jobs table has no row for the first job of the list: the second job's
\* locator has the first one's prefix
MissingJobShiftsPrefixes ==
    /\ prPc = "launched"
    /\ Len(jobGCSPrefixes) = 2
    /\ Len(jobRunLocators) = 1
    /\ jobRunLocators[1].jobName = jobGCSPrefixes[2].jobName
    /\ jobRunLocators[1].gcsPrefix = jobGCSPrefixes[1].gcsPrefix
    /\ jobGCSPrefixes[1].gcsPrefix # jobGCSPrefixes[2].gcsPrefix

----------------------------------------------------------------------------
(* The helpdesk FAQ: the ConfigMap store, ConfigMapClient, and the handlers *)
(* of the reaction events.                                                  *)

questionReaction == "channel_faq"
answerReaction == "faq_answer"

\* the forum channel, the members of test-platform-ci-admins, and the thread
\* of the forum: a question with two replies, and a reply to another question
forumChannelId == "forum"
authorizedUsers == {"admin"}
TopLevelMessages == {"q1"}
ThreadTimestamp(ts) == IF ts \in {"r1", "r2"} THEN "q1" ELSE "q2"
Timestamps == {"q1", "r1", "r2", "r3"}

\* GetConversationReplies(Timestamp: ts, Inclusive: true): the whole thread
\* for its top-level message, the one message for a reply
GetConversationReplies(ts) ==
    IF ts = "q1" THEN <<"q1", "r1", "r2">> ELSE <<ts>>

\* FaqItem, and its JSON in the ConfigMap (the empty string is no JSON)
FaqItem(ts, answers) == [Timestamp |-> ts, Answers |-> answers]
Answer(ts) == [Timestamp |-> ts]
Marshal(item) == <<item>>
Unmarshal(raw) == raw[1]
EmptyString == <<>>

\* configMap.Data[timestamp] on a map that may be nil
Lookup(data, timestamp) ==
    IF data # Nil /\ timestamp \in DOMAIN data[1] THEN data[1][timestamp]
    ELSE EmptyString

\* configMap.Data[item.Timestamp] = string(data), on a map that is not nil
SetKey(data, timestamp, raw) ==
    Ptr([k \in DOMAIN data[1] \cup {timestamp} |->
            IF k = timestamp THEN raw ELSE data[1][k]])

\* delete(configMap.Data, timestamp): no-op on a nil map
DeleteKey(data, timestamp) ==
    IF data = Nil THEN Nil
    ELSE Ptr([k \in DOMAIN data[1] \ {timestamp} |-> data[1][k]])

\* kubeClient.Update: refused with a conflict unless the object carries the
\* resourceVersion the API server holds
UpdateConflicts(cm, obj) == obj.resourceVersion # cm.resourceVersion
Updated(cm, obj) ==
    [Data |-> obj.Data, resourceVersion |-> cm.resourceVersion + 1]

\* the answers without the first one of the given timestamp
RemoveAnswer(answers, messageTs) ==
    IF \E i \in 1..Len(answers) : answers[i].Timestamp = messageTs
    THEN LET index == CHOOSE i \in 1..Len(answers) :
                          /\ answers[i].Timestamp = messageTs
                          /\ \A j \in 1..(i - 1) : answers[j].Timestamp # messageTs
         IN  SubSeq(answers, 1, index - 1) \o SubSeq(answers, index + 1, Len(answers))
    ELSE answers

HasAnswer(answers, messageTs) ==
    \E i \in 1..Len(answers) : answers[i].Timestamp = messageTs

\* --- the handlers of the reaction events ---
Handlers == {"h1", "h2"}

\* the inner event of a callback: reaction_added or reaction_removed
Events ==
    [added : BOOLEAN,
     Reaction : {questionReaction, answerReaction, "thumbsup"},
     User : {"admin", "guest"},
     Channel : {forumChannelId, "general"},
     Timestamp : Timestamps]

NoEvent ==
    [added |-> FALSE, Reaction |-> "", User |-> "", Channel |-> "", Timestamp |-> ""]
NoReturn == [handled |-> FALSE, err |-> "none"]
NoConfigMap == [Data |-> Nil, resourceVersion |-> 0]
NoCall == [op |-> "none", items |-> {}, err |-> "none"]

\* the ConfigMap before the events: without data, with an empty map, with
\* the question q1 unanswered, and with q1 answered by r1
InitialData ==
    { Nil,
      Ptr(<<>>),
      Ptr([k \in {"q1"} |-> Marshal(FaqItem("q1", <<>>))]),
      Ptr([k \in {"q1"} |-> Marshal(FaqItem("q1", <<Answer("r1")>>))]) }

\* the replies of the thread that already bear the answer reaction when the
\* question is added
PreMarked == { <<>>, <<Answer("r2")>> }

FaqIdle ==
    /\ configMap = NoConfigMap
    /\ hEvent = [h \in Handlers |-> NoEvent]
    /\ hPc = [h \in Handlers |-> "idle"]
    /\ faqItem = [h \in Handlers |-> Nil]
    /\ hConfigMap = [h \in Handlers |-> NoConfigMap]
    /\ hRet = [h \in Handlers |-> NoReturn]
    /\ hCalls = [h \in Handlers |-> <<>>]
    /\ cachedItems = {}
    /\ lastReload = Nil
    /\ faqNow = 0
    /\ cRet = NoCall

\* two callbacks have arrived and their handlers run side by side
FaqStart ==
    /\ \E d \in InitialData : configMap = [Data |-> d, resourceVersion |-> 1]
    /\ hEvent \in [Handlers -> Events]
    /\ hPc = [h \in Handlers |-> "dispatch"]
    /\ faqItem = [h \in Handlers |-> Nil]
    /\ hConfigMap = [h \in Handlers |-> NoConfigMap]
    /\ hRet = [h \in Handlers |-> NoReturn]
    /\ hCalls = [h \in Handlers |-> <<>>]
    /\ cachedItems = {}
    /\ lastReload = Nil
    /\ faqNow = 0
    /\ cRet = NoCall

Return(h, handled, err) ==
    /\ hRet' = [hRet EXCEPT ![h] = [handled |-> handled, err |-> err]]
    /\ hPc' = [hPc EXCEPT ![h] = "returned"]

\* slices.Contains(authorizedUsers, event.User)
AuthorizedAnyone(user) == TRUE
Authorized(user) == user \in authorizedUsers

\* the handler up to its first call of the store: the channel test of
\* FAQHandler, the switch on the reaction, the authorization test and, for an
\* answer, GetConversationReplies and the len(replies) == 1 test
HDispatch(h) ==
    /\ hPc[h] = "dispatch"
    /\ LET event == hEvent[h] IN
       IF event.Channel # forumChannelId THEN
            Return(h, FALSE, "nil") /\ UNCHANGED hCalls
       ELSE IF event.Reaction \notin {questionReaction, answerReaction} THEN
            Return(h, FALSE, "nil") /\ UNCHANGED hCalls
       ELSE IF ~Authorized(event.User) THEN
            Return(h, FALSE, "nil") /\ UNCHANGED hCalls
       ELSE IF event.Reaction = questionReaction /\ ~event.added THEN
            /\ hCalls' = [hCalls EXCEPT ![h] = Append(@, "RemoveItem")]
            /\ hPc' = [hPc EXCEPT ![h] = "removeGet"]
            /\ UNCHANGED hRet
       ELSE IF event.Reaction = questionReaction THEN
            /\ hPc' = [hPc EXCEPT ![h] = "getItem"]
            /\ UNCHANGED <<hRet, hCalls>>
       ELSE IF Len(GetConversationReplies(event.Timestamp)) = 1 THEN
            /\ hPc' = [hPc EXCEPT ![h] = "getItem"]
            /\ UNCHANGED <<hRet, hCalls>>
       ELSE Return(h, TRUE, "nil") /\ UNCHANGED hCalls
    /\ UNCHANGED <<configMap, hEvent, faqItem, hConfigMap, cachedItems,
                   lastReload, faqNow, cRet>>
    /\ UNCHANGED exceptFAQ

\* GetConversationReplies fails for an answer event of an authorized user
HRepliesFailed(h) ==
    /\ hPc[h] = "dispatch"
    /\ hEvent[h].Channel = forumChannelId
    /\ hEvent[h].Reaction = answerReaction
    /\ Authorized(hEvent[h].User)
    /\ Return(h, FALSE, "err")
    /\ UNCHANGED <<configMap, hEvent, faqItem, hConfigMap, hCalls, cachedItems,
                   lastReload, faqNow, cRet>>
    /\ UNCHANGED exceptFAQ

\* GetFAQItemIfExists: nil for a key that is absent, else the stored item
GetFAQItemIfExists(cm, timestamp) ==
    IF Lookup(cm.Data, timestamp) = EmptyString THEN Nil
    ELSE Ptr(Unmarshal(Lookup(cm.Data, timestamp)))

\* the timestamp the handler asks the store for: the message's own for a
\* question, its thread's for an answer
QuestionTs(event) ==
    IF event.Reaction = questionReaction THEN event.Timestamp
    ELSE ThreadTimestamp(event.Timestamp)

CallUpsertItem(h, item) ==
    /\ faqItem' = [faqItem EXCEPT ![h] = Ptr(item)]
    /\ hCalls' = [hCalls EXCEPT ![h] = Append(@, "UpsertItem")]
    /\ hPc' = [hPc EXCEPT ![h] = "upsertGet"]
    /\ UNCHANGED hRet

\* handleReactionRemoved, answerReaction, after GetFAQItemIfExists returned
\* with a nil error: faqItem.Answers is read at once
RemoveAnswerFrom(h, item, messageTs) ==
    IF item = Nil
    THEN /\ hPc' = [hPc EXCEPT ![h] = "panic"]
         /\ UNCHANGED <<faqItem, hCalls, hRet>>
    ELSE CallUpsertItem(h, FaqItem(item[1].Timestamp,
                                   RemoveAnswer(item[1].Answers, messageTs)))

\* handleReactionAdded, answerReaction, after GetFAQItemIfExists
AddAnswerTo(h, item, messageTs) ==
    IF item = Nil THEN Return(h, FALSE, "nil") /\ UNCHANGED <<faqItem, hCalls>>
    ELSE IF HasAnswer(item[1].Answers, messageTs)
    THEN Return(h, FALSE, "nil") /\ UNCHANGED <<faqItem, hCalls>>
    ELSE CallUpsertItem(h, FaqItem(item[1].Timestamp,
                                   Append(item[1].Answers, Answer(messageTs))))

\* handleReactionAdded, questionReaction, after GetFAQItemIfExists: the
\* top-level message is fetched (a reply has none), its text is matched and
\* the replies that bear the answer reaction are collected
AddQuestion(h, item, messageTs) ==
    IF item # Nil THEN Return(h, FALSE, "nil") /\ UNCHANGED <<faqItem, hCalls>>
    ELSE \/ Return(h, FALSE, "err") /\ UNCHANGED <<faqItem, hCalls>>
         \/ /\ messageTs \notin TopLevelMessages
            /\ Return(h, TRUE, "nil") /\ UNCHANGED <<faqItem, hCalls>>
         \/ /\ messageTs \in TopLevelMessages
            /\ \/ Return(h, FALSE, "nil") /\ UNCHANGED <<faqItem, hCalls>>
               \/ \E marked \in PreMarked :
                      CallUpsertItem(h, FaqItem(messageTs, marked))

\* GetFAQItemIfExists returns, and the handler goes on to its UpsertItem call
\* or to its return
HGetItem(h) ==
    /\ hPc[h] = "getItem"
    /\ LET event == hEvent[h]
           item == GetFAQItemIfExists(configMap, QuestionTs(event))
       IN  IF event.Reaction = questionReaction
           THEN AddQuestion(h, item, event.Timestamp)
           ELSE IF event.added THEN AddAnswerTo(h, item, event.Timestamp)
           ELSE RemoveAnswerFrom(h, item, event.Timestamp)
    /\ UNCHANGED <<configMap, hEvent, hConfigMap, cachedItems, lastReload,
                   faqNow, cRet>>
    /\ UNCHANGED exceptFAQ

\* GetFAQItemIfExists returns an error: returned by handleReactionAdded,
\* swallowed by handleReactionRemoved
HGetItemFailed(h) ==
    /\ hPc[h] = "getItem"
    /\ Return(h, FALSE, IF hEvent[h].added THEN "err" ELSE "nil")
    /\ UNCHANGED <<configMap, hEvent, faqItem, hConfigMap, hCalls, cachedItems,
                   lastReload, faqNow, cRet>>
    /\ UNCHANGED exceptFAQ

\* UpsertItem: getConfigMap, then configMap.Data[item.Timestamp] = string(data)
\* (a panic on a nil map)
HUpsertGet(h) ==
    /\ hPc[h] = "upsertGet"
    /\ IF configMap.Data = Nil
       THEN /\ hPc' = [hPc EXCEPT ![h] = "panic"]
            /\ UNCHANGED hConfigMap
       ELSE /\ hConfigMap' = [hConfigMap EXCEPT ![h] =
                  [configMap EXCEPT !.Data =
                      SetKey(@, faqItem[h][1].Timestamp, Marshal(faqItem[h][1]))]]
            /\ hPc' = [hPc EXCEPT ![h] = "update"]
    /\ UNCHANGED <<configMap, hEvent, faqItem, hRet, hCalls, cachedItems,
                   lastReload, faqNow, cRet>>
    /\ UNCHANGED exceptFAQ

\* RemoveItem: getConfigMap, then delete(configMap.Data, timestamp)
HRemoveGet(h) ==
    /\ hPc[h] = "removeGet"
    /\ hConfigMap' = [hConfigMap EXCEPT ![h] =
          [configMap EXCEPT !.Data = DeleteKey(@, hEvent[h].Timestamp)]]
    /\ hPc' = [hPc EXCEPT ![h] = "update"]
    /\ UNCHANGED <<configMap, hEvent, faqItem, hRet, hCalls, cachedItems,
                   lastReload, faqNow, cRet>>
    /\ UNCHANGED exceptFAQ

\* getConfigMap fails inside UpsertItem or RemoveItem
HGetConfigMapFailed(h) ==
    /\ hPc[h] \in {"upsertGet", "removeGet"}
    /\ Return(h, FALSE, "err")
    /\ UNCHANGED <<configMap, hEvent, faqItem, hConfigMap, hCalls, cachedItems,
                   lastReload, faqNow, cRet>>
    /\ UNCHANGED exceptFAQ

\* kubeClient.Update, and the handler's return
HUpdate(h) ==
    /\ hPc[h] = "update"
    /\ IF UpdateConflicts(configMap, hConfigMap[h])
       THEN Return(h, FALSE, "err") /\ UNCHANGED configMap
       ELSE /\ configMap' = Updated(configMap, hConfigMap[h])
            /\ Return(h, TRUE, "nil")
    /\ UNCHANGED <<hEvent, faqItem, hConfigMap, hCalls, cachedItems, lastReload,
                   faqNow, cRet>>
    /\ UNCHANGED exceptFAQ

FaqNext ==
    \/ \E h \in Handlers : HDispatch(h)
    \/ \E h \in Handlers : HRepliesFailed(h)
    \/ \E h \in Handlers : HGetItem(h)
    \/ \E h \in Handlers : HGetItemFailed(h)
    \/ \E h \in Handlers : HUpsertGet(h)
    \/ \E h \in Handlers : HRemoveGet(h)
    \/ \E h \in Handlers : HGetConfigMapFailed(h)
    \/ \E h \in Handlers : HUpdate(h)

\* --- one ConfigMapClient and its cache ---
MaxFaqClock == 3
MaxWrites == 3
\* time.Minute * 15, in ticks of the clock
FifteenMinutes == 2

\* the items a caller upserts
ClientItems ==
    { FaqItem(ts, answers) : ts \in {"q1", "q2"},
                             answers \in {<<>>, <<Answer("r1")>>} }

\* for _, item := range configMap.Data { items = append(items, item) }
ItemsOf(data) ==
    IF data = Nil THEN {} ELSE {data[1][k] : k \in DOMAIN data[1]}

\* len(c.cachedItems) > 0 && time.Now().Before(c.lastReload.Add(time.Minute * 15))
\* (the zero lastReload lies before every instant of the clock)
CacheNeverHit(items, reload, now) == FALSE
CacheHit(items, reload, now) ==
    items # {} /\ reload # Nil /\ now < reload[1] + FifteenMinutes

ClientStart ==
    /\ \E d \in InitialData : configMap = [Data |-> d, resourceVersion |-> 1]
    /\ hEvent = [h \in Handlers |-> NoEvent]
    /\ hPc = [h \in Handlers |-> "idle"]
    /\ faqItem = [h \in Handlers |-> Nil]
    /\ hConfigMap = [h \in Handlers |-> NoConfigMap]
    /\ hRet = [h \in Handlers |-> NoReturn]
    /\ hCalls = [h \in Handlers |-> <<>>]
    /\ cachedItems = {}
    /\ lastReload = Nil
    /\ faqNow = 0
    /\ cRet = NoCall

Called(op, items, err) == cRet' = [op |-> op, items |-> items, err |-> err]

\* c.UpsertItem(item): getConfigMap, the assignment into configMap.Data (a
\* panic on a nil map), Update
ClUpsertItem ==
    /\ cRet.op # "panic"
    /\ configMap.resourceVersion <= MaxWrites
    /\ \E item \in ClientItems :
          IF configMap.Data = Nil
          THEN Called("panic", {}, "none") /\ UNCHANGED configMap
          ELSE /\ configMap' = Updated(configMap,
                      [configMap EXCEPT !.Data = SetKey(@, item.Timestamp, Marshal(item))])
               /\ Called("UpsertItem", {}, "nil")
    /\ UNCHANGED <<hEvent, hPc, faqItem, hConfigMap, hRet, hCalls, cachedItems,
                   lastReload, faqNow>>
    /\ UNCHANGED exceptFAQ

\* c.RemoveItem(timestamp): getConfigMap, delete, Update
ClRemoveItem ==
    /\ cRet.op # "panic"
    /\ configMap.resourceVersion <= MaxWrites
    /\ \E timestamp \in {"q1", "q2"} :
          configMap' = Updated(configMap,
                          [configMap EXCEPT !.Data = DeleteKey(@, timestamp)])
    /\ Called("RemoveItem", {}, "nil")
    /\ UNCHANGED <<hEvent, hPc, faqItem, hConfigMap, hRet, hCalls, cachedItems,
                   lastReload, faqNow>>
    /\ UNCHANGED exceptFAQ

\* getConfigMap or Update fails inside UpsertItem or RemoveItem
ClWriteFailed ==
    /\ cRet.op # "panic"
    /\ \E op \in {"UpsertItem", "RemoveItem"} : Called(op, {}, "err")
    /\ UNCHANGED <<configMap, hEvent, hPc, faqItem, hConfigMap, hRet, hCalls,
                   cachedItems, lastReload, faqNow>>
    /\ UNCHANGED exceptFAQ

\* c.GetSerializedFAQItems()
ClGetSerializedFAQItems ==
    /\ cRet.op # "panic"
    /\ IF CacheHit(cachedItems, lastReload, faqNow)
       THEN /\ Called("GetSerializedFAQItems", cachedItems, "nil")
            /\ UNCHANGED <<cachedItems, lastReload>>
       ELSE IF configMap.Data = Nil
       THEN /\ Called("GetSerializedFAQItems", {}, "nil")
            /\ UNCHANGED <<cachedItems, lastReload>>
       ELSE /\ cachedItems' = ItemsOf(configMap.Data)
            /\ lastReload' = Ptr(faqNow)
            /\ Called("GetSerializedFAQItems", ItemsOf(configMap.Data), "nil")
    /\ UNCHANGED <<configMap, hEvent, hPc, faqItem, hConfigMap, hRet, hCalls, faqNow>>
    /\ UNCHANGED exceptFAQ

\* ... when the cache is not used and getConfigMap fails
ClGetFailed ==
    /\ cRet.op # "panic"
    /\ ~CacheHit(cachedItems, lastReload, faqNow)
    /\ Called("GetSerializedFAQItems", {}, "err")
    /\ UNCHANGED <<configMap, hEvent, hPc, faqItem, hConfigMap, hRet, hCalls,
                   cachedItems, lastReload, faqNow>>
    /\ UNCHANGED exceptFAQ

\* time passes
ClTick ==
    /\ faqNow < MaxFaqClock
    /\ faqNow' = faqNow + 1
    /\ UNCHANGED <<configMap, hEvent, hPc, faqItem, hConfigMap, hRet, hCalls,
                   cachedItems, lastReload, cRet>>
    /\ UNCHANGED exceptFAQ

ClNext ==
    \/ ClUpsertItem
    \/ ClRemoveItem
    \/ ClWriteFailed
    \/ ClGetSerializedFAQItems
    \/ ClGetFailed
    \/ ClTick

\* GetSerializedFAQItems returns with a nil error
GetReturns == ClGetSerializedFAQItems /\ cRet'.op = "GetSerializedFAQItems"

\* C39 as stated: GetSerializedFAQItems returns exactly the items the store
\* holds at that moment, also when fewer than 15 minutes have passed since the
\* client's last reload.
CexC39_GetReturnsTheStore ==
    [][GetReturns => cRet'.items = ItemsOf(configMap.Data)]_vars

\* C39, amended: while the cache is not empty and fewer than 15 minutes have
\* passed since the last reload, GetSerializedFAQItems returns the cached
\* items and reads nothing; otherwise it reads the ConfigMap and returns
\* exactly the items the store holds, which become the cache with the present
\* instant as the last reload (a ConfigMap without data gives no items and
\* leaves the cache alone). The cache changes in no other call, so it holds
\* the items of the store at the last reload, whatever UpsertItem and
\* RemoveItem have done since.
ThmC39_GetReturnsStoreOrFreshCache ==
    /\ [][GetReturns =>
            IF /\ cachedItems # {}
               /\ lastReload # Nil
               /\ faqNow - lastReload[1] < FifteenMinutes
            THEN /\ cRet'.items = cachedItems
                 /\ UNCHANGED <<cachedItems, lastReload>>
            ELSE /\ cRet'.items = ItemsOf(configMap.Data)
                 /\ \/ configMap.Data = Nil /\ UNCHANGED <<cachedItems, lastReload>>
                    \/ /\ configMap.Data # Nil
                       /\ cachedItems' = ItemsOf(configMap.Data)
                       /\ lastReload' = Ptr(faqNow)]_vars
    /\ [][~GetReturns => UNCHANGED <<cachedItems, lastReload>>]_vars

\* an item was upserted less than 15 minutes after the reload, and the call
\* that followed returned the cache without it
WitC39_UpsertedItemNotReturned ==
    /\ cRet.op = "GetSerializedFAQItems" /\ cRet.err = "nil"
    /\ lastReload # Nil /\ faqNow - lastReload[1] < FifteenMinutes
    /\ cRet.items = cachedItems
    /\ \E x \in ItemsOf(configMap.Data) : x \notin cRet.items

\* 15 minutes after the reload the call reads the store again, and returns
\* the item upserted in between
ReloadedAfterFifteenMinutes ==
    /\ cRet.op = "GetSerializedFAQItems" /\ cRet.err = "nil"
    /\ lastReload = Ptr(faqNow) /\ faqNow >= FifteenMinutes
    /\ configMap.resourceVersion > 1
    /\ cRet.items = ItemsOf(configMap.Data) /\ Cardinality(cRet.items) = 2

\* an event of an authorized user in the forum channel
Admitted(event) ==
    event.User \in authorizedUsers /\ event.Channel = forumChannelId
AnswerAdded(event) ==
    Admitted(event) /\ event.added /\ event.Reaction = answerReaction
AnswerRemoved(event) ==
    Admitted(event) /\ ~event.added /\ event.Reaction = answerReaction

\* GetFAQItemIfExists returns to the handler h, with a nil error
ItemReturned(h) ==
    hPc[h] = "getItem" /\ hPc'[h] # "getItem" /\ ~HGetItemFailed(h)

\* C37 as stated: when the answer reaction is removed from a reply whose
\* thread has no stored item, handleReactionRemoved returns without an error
\* and without crashing, and the store is left as it was.
CexC37_RemovalWithoutItemIgnored ==
    [][\A h \in Handlers :
          (/\ ItemReturned(h)
           /\ AnswerRemoved(hEvent[h])
           /\ GetFAQItemIfExists(configMap, QuestionTs(hEvent[h])) = Nil)
          => /\ hPc'[h] = "returned"
             /\ hRet'[h].err = "nil"
             /\ configMap' = configMap]_vars

\* the handler of such a removal has crashed on the nil item; the store is
\* as it was
RemovalWithoutItemPanics ==
    \E h \in Handlers :
        /\ hPc[h] = "panic"
        /\ AnswerRemoved(hEvent[h])
        /\ hEvent[h].Timestamp = "r3"
        /\ hCalls[h] = <<>>

\* with the item stored, the removal of an answer is written back without it
RemovalWithItemUpserts ==
    \A h \in Handlers :
        (AnswerRemoved(hEvent[h]) /\ faqItem[h] # Nil) =>
            /\ hCalls[h] = <<"UpsertItem">>
            /\ ~HasAnswer(faqItem[h][1].Answers, hEvent[h].Timestamp)

\* C38: the handler of an event whose user is not authorized, or whose channel
\* is not the forum channel, never calls UpsertItem or RemoveItem and never
\* comes to a call of the store; it returns not handled with a nil error; and
\* none of its steps changes the ConfigMap.
ThmC38_UnauthorizedEventChangesNothing ==
    /\ [](\A h \in Handlers :
            (hPc[h] # "idle" /\ ~Admitted(hEvent[h])) =>
                /\ hCalls[h] = <<>>
                /\ hPc[h] \in {"dispatch", "returned"}
                /\ hPc[h] = "returned" => hRet[h] = [handled |-> FALSE, err |-> "nil"])
    /\ [][\A h \in Handlers :
            (~Admitted(hEvent[h]) /\ hPc'[h] # hPc[h]) => configMap' = configMap]_vars

\* a guest's question event was turned away while the handler of an
\* administrator's same event stored the question
WitC38_GuestTurnedAwayAdminServed ==
    /\ hEvent["h1"] = [added |-> TRUE, Reaction |-> questionReaction,
                       User |-> "guest", Channel |-> forumChannelId,
                       Timestamp |-> "q1"]
    /\ hEvent["h2"] = [hEvent["h1"] EXCEPT !.User = "admin"]
    /\ hPc["h1"] = "returned" /\ hRet["h1"] = [handled |-> FALSE, err |-> "nil"]
    /\ hPc["h2"] = "returned" /\ hRet["h2"] = [handled |-> TRUE, err |-> "nil"]
    /\ hCalls["h2"] = <<"UpsertItem">>
    /\ GetFAQItemIfExists(configMap, "q1") # Nil

\* an administrator's event in another channel is turned away as well
AdminInOtherChannelTurnedAway ==
    \E h \in Handlers :
        /\ hEvent[h].User = "admin" /\ hEvent[h].Channel = "general"
        /\ hEvent[h].Reaction = questionReaction /\ ~hEvent[h].added
        /\ hPc[h] = "returned" /\ hRet[h] = [handled |-> FALSE, err |-> "nil"]

BothHandled ==
    \A h \in Handlers :
        hPc[h] = "returned" /\ hRet[h] = [handled |-> TRUE, err |-> "nil"]

\* the answers stored under the question q1
StoredAnswers ==
    IF GetFAQItemIfExists(configMap, "q1") = Nil THEN <<>>
    ELSE GetFAQItemIfExists(configMap, "q1")[1].Answers

AnswersWith(messageTs) ==
    {i \in 1..Len(StoredAnswers) : StoredAnswers[i].Timestamp = messageTs}

\* C40 as stated: when the handlers of two answer events for the replies r1
\* and r2 of the stored question q1 have both returned handled with no
\* error, the stored item holds both answers, whatever the interleaving; and
\* when both handled the same answer event, the item holds exactly one answer
\* of that timestamp.
CexC40_NoLostAnswer ==
    (/\ BothHandled
     /\ \A h \in Handlers : AnswerAdded(hEvent[h])
     /\ \A h \in Handlers : hEvent[h].Timestamp \in {"r1", "r2"}) =>
        \A h \in Handlers : Cardinality(AnswersWith(hEvent[h].Timestamp)) = 1

\* the part of C40 that the code keeps: an answer event handled twice leaves
\* exactly one answer of its timestamp
SameAnswerTwiceStoredOnce ==
    (/\ BothHandled
     /\ \A h \in Handlers : AnswerAdded(hEvent[h])
     /\ hEvent["h1"].Timestamp = hEvent["h2"].Timestamp
     /\ hEvent["h1"].Timestamp \in {"r1", "r2"}) =>
        Cardinality(AnswersWith(hEvent["h1"].Timestamp)) = 1

\* both handlers read the item before either wrote it: the answer r1 that
\* the first one stored is gone
AnswerLost ==
    /\ BothHandled
    /\ hEvent["h1"].Timestamp = "r1" /\ AnswerAdded(hEvent["h1"])
    /\ hEvent["h2"].Timestamp = "r2" /\ AnswerAdded(hEvent["h2"])
    /\ StoredAnswers = <<Answer("r2")>>

----------------------------------------------------------------------------
(* Specifications                                                          *)

InitNextJobRunID == NjStart /\ RetryIdle /\ GIdle /\ TsIdle /\ CtIdle /\ WIdle /\ RrIdle /\ RunIdle /\ PrIdle /\ FaqIdle
SpecNextJobRunID == InitNextJobRunID /\ [][NjNext]_vars

InitRetry == RetryStart /\ NjIdle /\ GIdle /\ TsIdle /\ CtIdle /\ WIdle /\ RrIdle /\ RunIdle /\ PrIdle /\ FaqIdle
SpecRetry == InitRetry /\ [][RetryNext]_vars

InitFanOut == GStart /\ NjIdle /\ RetryIdle /\ TsIdle /\ CtIdle /\ WIdle /\ RrIdle /\ RunIdle /\ PrIdle /\ FaqIdle
SpecFanOut == InitFanOut /\ [][GNext]_vars

InitTestStatus == TsStart /\ NjIdle /\ RetryIdle /\ GIdle /\ CtIdle /\ WIdle /\ RrIdle /\ RunIdle /\ PrIdle /\ FaqIdle
SpecTestStatus == InitTestStatus /\ [][TsNext]_vars

InitCheckTestCase == CtStart /\ NjIdle /\ RetryIdle /\ GIdle /\ TsIdle /\ WIdle /\ RrIdle /\ RunIdle /\ PrIdle /\ FaqIdle
SpecCheckTestCase == InitCheckTestCase /\ [][CtNext]_vars

InitWalker == WStart /\ NjIdle /\ RetryIdle /\ GIdle /\ TsIdle /\ CtIdle /\ RrIdle /\ RunIdle /\ PrIdle /\ FaqIdle
SpecWalker == InitWalker /\ [][WNext]_vars

InitResolver ==
    RrStart /\ NjIdle /\ RetryIdle /\ GIdle /\ TsIdle /\ CtIdle /\ WIdle /\ RunIdle /\ PrIdle /\ FaqIdle
SpecResolver == InitResolver /\ [][RrNext]_vars

\* the walker over buckets with ids of different lengths; the goroutine is
\* scheduled as long as it can take a step
InitWalkerMixed ==
    WStartMixed /\ NjIdle /\ RetryIdle /\ GIdle /\ TsIdle /\ CtIdle /\ RrIdle /\ RunIdle /\ PrIdle /\ FaqIdle
FairSpecWalker == InitWalkerMixed /\ [][WNext]_vars /\ WF_vars(WkProducer)

\* the command: Run and the handling of its error
InitRun ==
    RunStart /\ NjIdle /\ RetryIdle /\ GIdle /\ TsIdle /\ CtIdle /\ WIdle /\ RrIdle /\ PrIdle /\ FaqIdle
SpecRun == InitRun /\ [][RunNext]_vars

\* the PR flow up to the launch of the workers
InitPairing ==
    PrStart /\ NjIdle /\ RetryIdle /\ GIdle /\ TsIdle /\ CtIdle /\ WIdle /\ RrIdle /\ RunIdle /\ FaqIdle
SpecPairing == InitPairing /\ [][PrNext]_vars

\* the handlers of two reaction events
InitFAQ ==
    FaqStart /\ NjIdle /\ RetryIdle /\ GIdle /\ TsIdle /\ CtIdle /\ WIdle /\ RrIdle /\ RunIdle /\ PrIdle
SpecFAQ == InitFAQ /\ [][FaqNext]_vars

\* one ConfigMapClient called again and again
InitFAQClient ==
    ClientStart /\ NjIdle /\ RetryIdle /\ GIdle /\ TsIdle /\ CtIdle /\ WIdle /\ RrIdle /\ RunIdle /\ PrIdle
SpecFAQClient == InitFAQClient /\ [][ClNext]_vars

====
